---- MODULE Spec2Model ----
(***************************************************************************)
(* simple_os: the boot paths, the descriptor tables, the interrupt        *)
(* controller and the exception / interrupt handlers, as one machine.      *)
(*                                                                         *)
(* There is one processor.  Its instruction stream is a stack of frames:   *)
(* a call pushes a frame, an interrupt or exception pushes the frame of    *)
(* its handler on top of whatever was running, and only the top frame      *)
(* executes.  Every function of the source is a sequence of instructions   *)
(* (the definitions named after the functions); one action per kind of     *)
(* instruction gives the instructions their meaning.                       *)
(***************************************************************************)
EXTENDS Integers, Sequences, FiniteSets

VARIABLES
    prog,       \* which binary was booted (which _start runs)
    stack,      \* the frames of the instruction stream, top frame last
    rflags_if,  \* RFLAGS.IF: maskable interrupts are delivered
    halted,     \* the processor sits in hlt, waiting for an interrupt
    gdtr,       \* table named by the GDT register
    cs,         \* code-segment register: [table, sel]
    tr,         \* task register: [table, sel]
    idtr,       \* table named by the IDT register
    built,      \* lazy statics: how often each initializer has run
    pic,        \* ChainedPics: [initialized, offsets]
    locks,      \* spin::Mutex state: depth of the holding frame, 0 when free
    KEYBOARD,   \* the scancode decoder behind the KEYBOARD mutex
    vga,        \* what was written through WRITER, one entry per write_fmt
    WRITER,     \* the Writer behind the WRITER mutex: [column_position, chars]
    written,    \* the last write through the Writer: <<row, col, byte>> per cell
    serial,     \* what was written through SERIAL1, one entry per write_fmt
    port_f4,    \* values written to the isa-debug-exit port
    acks,       \* end-of-interrupt commands since the last hardware delivery
    hwlog,      \* privileged operations executed so far, in order
    calls,      \* how often each function was entered
    irqs,       \* hardware interrupts delivered so far
    faults      \* injected processor faults so far

vars == <<prog, stack, rflags_if, halted, gdtr, cs, tr, idtr, built, pic, locks,
          KEYBOARD, vga, WRITER, written, serial, port_f4, acks, hwlog, calls,
          irqs, faults>>

---------------------------------------------------------------------------
(* Bounds of the model *)

\* hardware interrupts (timer, keyboard) delivered in one run
MaxIrq == 2

\* processor faults (double fault, page fault) injected in one run
MaxFaults == 1

\* hardware interrupts that may have been delivered before a fault is injected
MaxIrqBeforeFault == 0

\* frames that fit on the kernel stack before the guard page is hit
KernelStackFrames == 9

\* calls of public functions by the caller of the library
MaxCalls == 3

\* calls of write_byte / write_string on one Writer
MaxWrites == 2

---------------------------------------------------------------------------
(* Program constants *)

PIC_1_OFFSET == 32
PIC_2_OFFSET == PIC_1_OFFSET + 8

DOUBLE_FAULT_IST_INDEX == 0

\* exception vectors of the x86_64 IDT fields used by the source
BreakpointVector == 3
DoubleFaultVector == 8
PageFaultVector == 14
GeneralProtectionVector == 13

\* InterruptIndex
Timer == PIC_1_OFFSET
Keyboard == PIC_1_OFFSET + 1

\* QemuExitCode
Success == 16
Failed == 17

\* the keyboard data port and the isa-debug-exit port
KeyboardPort == 96
ExitPort == 244

Programs == {"kernel", "kernel_test", "lib_test", "basic_boot",
             "should_panic", "stack_overflow"}

LockNames == {"WRITER", "SERIAL1", "PICS", "KEYBOARD"}

Statics == {"TSS", "GDT", "IDT", "TEST_IDT"}

---------------------------------------------------------------------------
(* Instructions *)

Call(f, a) == [op |-> "call", f |-> f, arg |-> a]
Lock(l) == [op |-> "lock", l |-> l]
Unlock(l) == [op |-> "unlock", l |-> l]
WriteFmt(sink) == [op |-> "write_fmt", sink |-> sink]
Deref(s) == [op |-> "deref", s |-> s]
Lgdt(t) == [op |-> "lgdt", t |-> t]
SetCs(t, field) == [op |-> "set_cs", t |-> t, field |-> field]
LoadTss(t, field) == [op |-> "load_tss", t |-> t, field |-> field]
Lidt(t) == [op |-> "lidt", t |-> t]
PicInitialize == [op |-> "pic_initialize"]
Sti == [op |-> "sti"]
Hlt == [op |-> "hlt"]
Jmp(to) == [op |-> "jmp", to |-> to]
Int3 == [op |-> "int3"]
Outl(port, code) == [op |-> "outl", port |-> port, code |-> code]
Eoi(v) == [op |-> "eoi", v |-> v]
Inb(port) == [op |-> "inb", port |-> port]
AddByte(else) == [op |-> "add_byte", else |-> else]
ProcessKeyevent(else) == [op |-> "process_keyevent", else |-> else]
PrintKey == [op |-> "print_key"]
PanicMacro(msg) == [op |-> "panic", msg |-> msg]
AssertEq(l, r) == [op |-> "assert_eq", left |-> l, right |-> r]
VolatileRead == [op |-> "volatile_read"]
ReadCell(row, col) == [op |-> "read_cell", row |-> row, col |-> col]
AssertEqChar(c) == [op |-> "assert_eq", char |-> c]

---------------------------------------------------------------------------
(* vga_buffer.rs, serial.rs: the two sinks *)

\* print!/println! expand to this call; the guard lives for one statement
vga_print == << Lock("WRITER"), WriteFmt("vga"), Unlock("WRITER") >>

\* mutant: the write is attempted a second time
serial_print_retries ==
    << Lock("SERIAL1"), WriteFmt("serial"), WriteFmt("serial"),
       Unlock("SERIAL1") >>

\* serial_print!/serial_println! expand to this call
serial_print == << Lock("SERIAL1"), WriteFmt("serial"), Unlock("SERIAL1") >>

\* the macros: println! appends the newline to what print! formats
print_m(msg) == Call("vga_print", msg)
println_m(msg) == print_m(msg \o <<"\n">>)
serial_print_m(msg) == Call("serial_print", msg)
serial_println_m(msg) == serial_print_m(msg \o <<"\n">>)

---------------------------------------------------------------------------
(* vga_buffer.rs: the Writer and the screen buffer *)

BUFFER_HEIGHT == 25
BUFFER_WIDTH == 80

\* the bytes 0x20..=0x7e, one character each (all but the backquote 0x60,
\* which no text of the program contains)
PrintableText ==
    " !\"#$%&'()*+,-./0123456789:;<=>?@ABCDEFGHIJKLMNOPQRSTUVWXYZ[\\]^_abcdefghijklmnopqrstuvwxyz{|}~"

Printable == {SubSeq(PrintableText, i, i) : i \in 1..Len(PrintableText)}

\* the byte 0xfe that stands for everything outside the printable range
Unprintable == "0xfe"

\* ascii_character of the blank ScreenChar
Blank == " "

\* the static WRITER as lazy_static builds it: column 0 of the text buffer
\* at 0xb8000, which shows an empty screen
WRITER_value ==
    [column_position |-> 0,
     chars |-> [row \in 0..(BUFFER_HEIGHT - 1) |->
                  [col \in 0..(BUFFER_WIDTH - 1) |-> Blank]]]

\* a Writer together with the record of the cells its character writes went
\* to and the fmt::Result of the write in progress
Tracked(w) ==
    [column_position |-> w.column_position, chars |-> w.chars,
     written |-> <<>>, result |-> "Ok"]

Untracked(t) == [column_position |-> t.column_position, chars |-> t.chars]

\* self.buffer.chars[row][col].write(ScreenChar { ascii_character, .. })
Volatile_write(w, row, col, byte) ==
    [w EXCEPT !.chars[row][col] = byte,
              !.written = Append(@, <<row, col, byte>>)]

clear_row(w, row) ==
    [w EXCEPT !.chars[row] = [col \in 0..(BUFFER_WIDTH - 1) |-> Blank]]

\* mutant: the rows move up and the column is reset, but the last row keeps
\* what it held
new_line_keeps_row(w) ==
    [w EXCEPT !.chars =
         [row \in 0..(BUFFER_HEIGHT - 1) |->
            IF row + 1 \in 1..(BUFFER_HEIGHT - 1)
            THEN w.chars[row + 1] ELSE w.chars[row]],
              !.column_position = 0]

\* every row moves up by one, the last row is cleared, the column is reset
new_line(w) ==
    LET moved == [w EXCEPT !.chars =
                     [row \in 0..(BUFFER_HEIGHT - 1) |->
                        IF row + 1 \in 1..(BUFFER_HEIGHT - 1)
                        THEN w.chars[row + 1] ELSE w.chars[row]]]
    IN [clear_row(moved, BUFFER_HEIGHT - 1) EXCEPT !.column_position = 0]

\* mutant: the line is wrapped only after the column has passed the width
write_byte_wraps_late(w, byte) ==
    IF byte = "\n" THEN new_line(w)
    ELSE LET full == IF w.column_position > BUFFER_WIDTH THEN new_line(w)
                     ELSE w
             row == BUFFER_HEIGHT - 1
             col == full.column_position
         IN [Volatile_write(full, row, col, byte)
               EXCEPT !.column_position = @ + 1]

write_byte(w, byte) ==
    IF byte = "\n" THEN new_line(w)
    ELSE LET full == IF w.column_position >= BUFFER_WIDTH THEN new_line(w)
                     ELSE w
             row == BUFFER_HEIGHT - 1
             col == full.column_position
         IN [Volatile_write(full, row, col, byte)
               EXCEPT !.column_position = @ + 1]

\* mutant: every byte is passed to write_byte as it is
RECURSIVE write_string_bytes_raw(_, _, _, _)
write_string_bytes_raw(w, s, lo, hi) ==
    IF lo > hi THEN w
    ELSE IF lo = hi
    THEN write_byte(w, SubSeq(s, lo, lo))
    ELSE LET mid == (lo + hi) \div 2
         IN CHOOSE after \in {write_string_bytes_raw(m, s, mid + 1, hi) :
                                 m \in {write_string_bytes_raw(w, s, lo, mid)}} :
               TRUE

\* the loop of write_string over the bytes lo..hi of s, in order: the bytes
\* up to the middle first, then the rest from the writer these left (the
\* writer in between is bound by \in, so it is computed once)
RECURSIVE write_string_bytes(_, _, _, _)
write_string_bytes(w, s, lo, hi) ==
    IF lo > hi THEN w
    ELSE IF lo = hi
    THEN LET byte == SubSeq(s, lo, lo)
         IN write_byte(w, IF byte \in Printable \cup {"\n"} THEN byte
                          ELSE Unprintable)
    ELSE LET mid == (lo + hi) \div 2
         IN CHOOSE after \in {write_string_bytes(m, s, mid + 1, hi) :
                                 m \in {write_string_bytes(w, s, lo, mid)}} :
               TRUE

write_string(w, s) == write_string_bytes(w, s, 1, Len(s))

\* fmt::Write::write_str: write_string, then Ok(())
write_str(w, s) == [write_string(w, s) EXCEPT !.result = "Ok"]

\* fmt::Write::write_fmt: one write_str per piece of the format arguments,
\* given up at the first piece that reports an error
RECURSIVE write_fmt(_, _)
write_fmt(w, args) ==
    IF args = <<>> THEN w
    ELSE CHOOSE after \in {IF n.result = "Err" THEN n
                           ELSE write_fmt(n, Tail(args)) :
                              n \in {write_str(w, Head(args))}} : TRUE

\* the messages of the two panics of _print (the first one is printed with
\* backquotes around Result::unwrap() and Err)
UnwrapFailed == "called Result::unwrap() on an Err value: Error"
ExpectFailed == "Printing to serial failed: Error"

---------------------------------------------------------------------------
(* gdt.rs: task-state segment, segment table, selectors *)

\* the reserved stack region: STACK_SIZE bytes from StackStart upwards
STACK_SIZE == 4096 * 5
StackStart == 1048576

\* variant: the slot gets the base of the reserved region
TSS_value_stack_start ==
    [interrupt_stack_table |->
        [i \in 0..6 |-> IF i = DOUBLE_FAULT_IST_INDEX THEN StackStart ELSE 0]]

\* TaskStateSegment::new() zeroes the seven interrupt-stack-table slots;
\* slot DOUBLE_FAULT_IST_INDEX gets the end of the reserved region
TSS_value ==
    [interrupt_stack_table |->
        [i \in 0..6 |-> IF i = DOUBLE_FAULT_IST_INDEX
                        THEN StackStart + STACK_SIZE ELSE 0]]

\* Descriptor: a user segment takes one slot, a system segment two
kernel_code_segment == <<"kernel_code">>
tss_segment == <<"tss_low", "tss_high">>

\* GlobalDescriptorTable::new(): slot 0 is the null descriptor
GlobalDescriptorTable_new == <<"null">>

\* SegmentSelector::new(index, Ring0): index in bits 3.., TI = 0, RPL = 0
SegmentSelector(index) == index * 8

\* variant: the selector returned is that of the slot before the descriptor
add_entry_slot_before(table, descriptor) ==
    [table |-> table \o descriptor,
     selector |-> SegmentSelector(Len(table) - 1)]

\* add_entry: append the descriptor's slots, return the selector of the first
add_entry(table, descriptor) ==
    [table |-> table \o descriptor, selector |-> SegmentSelector(Len(table))]

GDT_value ==
    LET code == add_entry(GlobalDescriptorTable_new, kernel_code_segment)
        tss == add_entry(code.table, tss_segment)
    IN [table |-> tss.table,
        code_selector |-> code.selector,
        tss_selector |-> tss.selector]

\* lazy_static: the initializer runs at the first dereference only; the
\* initializer of GDT dereferences TSS
Uses(s) == IF s = "GDT" THEN {"TSS"} ELSE {}

\* variant: the initializer runs at every dereference
lazy_static_each_time(b, s) ==
    [x \in Statics |-> IF x = s \/ x \in Uses(s) THEN b[x] + 1 ELSE b[x]]

lazy_static(b, s) ==
    IF b[s] > 0 THEN b
    ELSE [x \in Statics |->
            IF x = s \/ (x \in Uses(s) /\ b[x] = 0) THEN b[x] + 1 ELSE b[x]]

\* mutant: the two selectors of the table are bound the wrong way round
gdt_init_swapped ==
    << Deref("GDT"), Lgdt("GDT"),
       SetCs("GDT", "tss_selector"),
       LoadTss("GDT", "code_selector") >>

gdt_init ==
    << Deref("GDT"), Lgdt("GDT"),
       SetCs("GDT", "code_selector"),
       LoadTss("GDT", "tss_selector") >>

---------------------------------------------------------------------------
(* interrupts.rs: the exception table *)

Vectors == 0..255

\* an entry: the handler and the IST field (0: no stack switch, else slot + 1)
MissingEntry == [handler |-> "missing", ist |-> 0]

InterruptDescriptorTable_new == [v \in Vectors |-> MissingEntry]

set_handler_fn(idt, v, h) ==
    [idt EXCEPT ![v] = [handler |-> h, ist |-> 0]]

set_stack_index(idt, v, index) ==
    [idt EXCEPT ![v] = [@ EXCEPT !.ist = index + 1]]

\* variant: the double-fault entry is left without an interrupt stack and
\* the two controller lines are bound the wrong way round
IDT_value_unbound ==
    LET i1 == set_handler_fn(InterruptDescriptorTable_new,
                             BreakpointVector, "breakpoint_handler")
        i2 == set_handler_fn(i1, DoubleFaultVector, "double_fault_handler")
        i3 == set_handler_fn(i2, Timer, "keyboard_interrupt_handler")
        i4 == set_handler_fn(i3, Keyboard, "timer_interrupt_handler")
    IN set_handler_fn(i4, PageFaultVector, "page_fault_handler")

IDT_value ==
    LET i1 == set_handler_fn(InterruptDescriptorTable_new,
                             BreakpointVector, "breakpoint_handler")
        i2 == set_stack_index(
                 set_handler_fn(i1, DoubleFaultVector, "double_fault_handler"),
                 DoubleFaultVector, DOUBLE_FAULT_IST_INDEX)
        i3 == set_handler_fn(i2, Timer, "timer_interrupt_handler")
        i4 == set_handler_fn(i3, Keyboard, "keyboard_interrupt_handler")
    IN set_handler_fn(i4, PageFaultVector, "page_fault_handler")

\* variant: the test table's double-fault entry names no interrupt stack
TEST_IDT_value_no_stack ==
    set_handler_fn(InterruptDescriptorTable_new,
                   DoubleFaultVector, "test_double_fault_handler")

\* tests/stack_overflow.rs
TEST_IDT_value ==
    set_stack_index(
        set_handler_fn(InterruptDescriptorTable_new,
                       DoubleFaultVector, "test_double_fault_handler"),
        DoubleFaultVector, DOUBLE_FAULT_IST_INDEX)

\* the table the IDT register names
Table(name) ==
    IF name = "IDT" THEN IDT_value
    ELSE IF name = "TEST_IDT" THEN TEST_IDT_value
    ELSE InterruptDescriptorTable_new

\* variant: init_idt loads a table of its own that lacks the handlers
init_idt_other_table == << Deref("TEST_IDT"), Lidt("TEST_IDT") >>

init_idt == << Deref("IDT"), Lidt("IDT") >>

init_test_idt == << Deref("TEST_IDT"), Lidt("TEST_IDT") >>

---------------------------------------------------------------------------
(* interrupts.rs: the interrupt controller *)

\* Pic::handles_interrupt: each controller serves eight lines from its offset
handles_interrupt(offset, id) == offset <= id /\ id < offset + 8

\* ChainedPics::new(offset1, offset2): the vector bases of the two controllers
ChainedPics_new(offset1, offset2) ==
    [primary |-> offset1, secondary |-> offset2]

\* variant: the controllers are constructed with the two offsets exchanged
PICS_value_exchanged == ChainedPics_new(PIC_2_OFFSET, PIC_1_OFFSET)

PICS_value == ChainedPics_new(PIC_1_OFFSET, PIC_2_OFFSET)

\* ChainedPics::handles_interrupt
ChainedPics_handles_interrupt(id) ==
    \/ handles_interrupt(PICS_value.primary, id)
    \/ handles_interrupt(PICS_value.secondary, id)

\* variant: the primary controller is acknowledged before the secondary
notify_end_of_interrupt_primary_first(id) ==
    IF ChainedPics_handles_interrupt(id)
    THEN <<"PIC1">>
         \o (IF handles_interrupt(PICS_value.secondary, id)
             THEN <<"PIC2">> ELSE <<>>)
    ELSE <<>>

\* ChainedPics::notify_end_of_interrupt: the commands it writes, in order
notify_end_of_interrupt(id) ==
    IF ChainedPics_handles_interrupt(id)
    THEN (IF handles_interrupt(PICS_value.secondary, id)
          THEN <<"PIC2">> ELSE <<>>)
         \o <<"PIC1">>
    ELSE <<>>

---------------------------------------------------------------------------
(* interrupts.rs: the keyboard decoder (ScancodeSet1, Us104Key, Ignore) *)

\* scancodes the keyboard sends in the model: A, LShift (make and break),
\* the 0xE0 prefix, ArrowUp after the prefix, and a byte no key has
Scancodes(kb) ==
    IF kb.state = "Start" THEN {30, 158, 42, 170, 224, 255} ELSE {72, 255}

map_scancode(code) ==
    IF code = 30 THEN "A" ELSE IF code = 42 THEN "LShift" ELSE "Unknown"

map_extended_scancode(code) ==
    IF code = 72 THEN "ArrowUp" ELSE "Unknown"

NoKeyEvent == [tag |-> "None", code |-> "", state |-> ""]

KeyEvent(code, state) ==
    IF code = "Unknown" THEN [tag |-> "Err", code |-> "", state |-> ""]
    ELSE [tag |-> "Some", code |-> code, state |-> state]

\* Keyboard::add_byte: [kb: the decoder afterwards, res: Err, None or Some]
add_byte(kb, byte) ==
    IF kb.state = "Start"
    THEN IF byte = 224
         THEN [kb |-> [kb EXCEPT !.state = "Extended"], res |-> NoKeyEvent]
         ELSE IF byte >= 128
         THEN [kb |-> kb, res |-> KeyEvent(map_scancode(byte - 128), "Up")]
         ELSE [kb |-> kb, res |-> KeyEvent(map_scancode(byte), "Down")]
    ELSE IF byte >= 128
         THEN [kb |-> [kb EXCEPT !.state = "Start"],
               res |-> KeyEvent(map_extended_scancode(byte - 128), "Up")]
         ELSE [kb |-> [kb EXCEPT !.state = "Start"],
               res |-> KeyEvent(map_extended_scancode(byte), "Down")]

NoKey == [tag |-> "None", val |-> ""]

\* Keyboard::process_keyevent: [kb, key: None, Unicode(c) or RawKey(k)]
process_keyevent(kb, ev) ==
    IF ev.code = "LShift"
    THEN IF ev.state = "Down"
         THEN [kb |-> [kb EXCEPT !.lshift = TRUE],
               key |-> [tag |-> "RawKey", val |-> "LShift"]]
         ELSE [kb |-> [kb EXCEPT !.lshift = FALSE], key |-> NoKey]
    ELSE IF ev.state = "Down"
         THEN IF ev.code = "A"
              THEN [kb |-> kb,
                    key |-> [tag |-> "Unicode",
                             val |-> IF kb.lshift THEN "A" ELSE "a"]]
              ELSE [kb |-> kb, key |-> [tag |-> "RawKey", val |-> ev.code]]
         ELSE [kb |-> kb, key |-> NoKey]

---------------------------------------------------------------------------
(* interrupts.rs: the handlers *)

\* variant: the breakpoint handler ends in the halt loop instead of returning
breakpoint_handler_halts ==
    << println_m(<<"EXCEPTION: BREAKPOINT\n", "stack_frame">>),
       Call("hlt_loop", <<>>) >>

breakpoint_handler ==
    << println_m(<<"EXCEPTION: BREAKPOINT\n", "stack_frame">>) >>

double_fault_handler ==
    << PanicMacro(<<"EXCEPTION: DOUBLE FAULT\n", "stack_frame">>) >>

\* mutant: the guard of PICS outlives the handler
timer_interrupt_handler_keeps_pics ==
    << print_m(<<".">>),
       Lock("PICS"), Eoi(Timer) >>

timer_interrupt_handler ==
    << print_m(<<".">>),
       Lock("PICS"), Eoi(Timer), Unlock("PICS") >>

\* variant: a byte the decoder does not turn into a key event returns early
keyboard_interrupt_handler_early_return ==
    << Lock("KEYBOARD"),
       Inb(KeyboardPort),
       AddByte(9),
       ProcessKeyevent(6),
       PrintKey,
       Lock("PICS"), Eoi(Keyboard), Unlock("PICS"),
       Unlock("KEYBOARD") >>

\* the keyboard guard is a local: it is dropped when the handler returns
\* mutant: the interrupt is acknowledged before the byte is decoded
keyboard_interrupt_handler_ack_first ==
    << Lock("KEYBOARD"),
       Inb(KeyboardPort),
       Lock("PICS"), Eoi(Keyboard), Unlock("PICS"),
       AddByte(9),
       ProcessKeyevent(9),
       PrintKey,
       Unlock("KEYBOARD") >>

keyboard_interrupt_handler ==
    << Lock("KEYBOARD"),
       Inb(KeyboardPort),
       AddByte(6),
       ProcessKeyevent(6),
       PrintKey,
       Lock("PICS"), Eoi(Keyboard), Unlock("PICS"),
       Unlock("KEYBOARD") >>

page_fault_handler ==
    << println_m(<<"EXCEPTION: PAGE FAULT">>),
       println_m(<<"ACCESSED ADDRESS: ", "cr2">>),
       println_m(<<"ERROR CODE: ", "error_code">>),
       println_m(<<"stack_frame">>),
       Call("hlt_loop", <<>>) >>

test_breakpoint_exception == << Int3 >>

---------------------------------------------------------------------------
(* lib.rs *)

QemuExitCode(name) == IF name = "Success" THEN Success ELSE Failed

exit_qemu(exit_code) == << Outl(ExitPort, QemuExitCode(exit_code[1])) >>

hlt_loop == << Hlt, Jmp(1) >>

\* variant: interrupts are enabled while the PICS guard is still alive
init_enable_in_lock ==
    << Call("gdt_init", <<>>),
       Call("init_idt", <<>>),
       Lock("PICS"), PicInitialize, Sti, Unlock("PICS") >>

\* mutant: the exception table is loaded before the segment table
init_idt_first ==
    << Call("init_idt", <<>>),
       Call("gdt_init", <<>>),
       Lock("PICS"), PicInitialize, Unlock("PICS"),
       Sti >>

\* mutant: interrupts are enabled before the controller is remapped
init_sti_early ==
    << Call("gdt_init", <<>>),
       Call("init_idt", <<>>),
       Sti,
       Lock("PICS"), PicInitialize, Unlock("PICS") >>

init ==
    << Call("gdt_init", <<>>),
       Call("init_idt", <<>>),
       Lock("PICS"), PicInitialize, Unlock("PICS"),
       Sti >>

\* mutant: '[ok]' is printed before the test is run
Testable_run_ok_first(test) ==
    << serial_print_m(<<test[1], "...\t">>),
       serial_println_m(<<"[ok]">>),
       Call(test[1], <<>>) >>

\* Testable::run for the test named by test[1]
Testable_run(test) ==
    << serial_print_m(<<test[1], "...\t">>),
       Call(test[1], <<>>),
       serial_println_m(<<"[ok]">>) >>

RECURSIVE RunAll(_)
RunAll(tests) ==
    IF tests = <<>> THEN <<>>
    ELSE <<Call("Testable_run", <<Head(tests)>>)>> \o RunAll(Tail(tests))

\* test_runner: the loop over the slice, unrolled
test_runner(tests) ==
    << serial_println_m(<<"Running {} tests">>) >>
    \o RunAll(tests)
    \o << Call("exit_qemu", <<"Success">>) >>

\* mutant: the exit code is written before anything is printed
test_panic_handler_exit_first(info) ==
    << Call("exit_qemu", <<"Failed">>),
       serial_println_m(<<"[failed!]\n">>),
       serial_println_m(<<"Error: ">> \o info \o <<"\n">>),
       Call("hlt_loop", <<>>) >>

test_panic_handler(info) ==
    << serial_println_m(<<"[failed!]\n">>),
       serial_println_m(<<"Error: ">> \o info \o <<"\n">>),
       Call("exit_qemu", <<"Failed">>),
       Call("hlt_loop", <<>>) >>

\* #[cfg(test)] _start of the library
lib_test_start ==
    << Call("init", <<>>),
       Call("test_runner", <<>>),
       Call("hlt_loop", <<>>) >>

\* #[cfg(test)] panic of the library, and of tests/basic_boot.rs,
\* tests/stack_overflow.rs and the test build of main.rs
test_panic(info) == << Call("test_panic_handler", info) >>

---------------------------------------------------------------------------
(* vga_buffer.rs: the test that only prints *)

test_println_simple == << println_m(<<"test_println_simple output">>) >>

\* the string test_println_output prints and reads back
TestString == "Some test string that fits on a single line"

\* the loop of test_println_output over the characters of string from the
\* i-th on, unrolled: the guard of WRITER lives for the one read, the
\* comparison follows it
RECURSIVE ReadBack(_, _)
ReadBack(string, i) ==
    IF i > Len(string) THEN <<>>
    ELSE << Lock("WRITER"),
            ReadCell(BUFFER_HEIGHT - 2, i - 1),
            Unlock("WRITER"),
            AssertEqChar(SubSeq(string, i, i)) >>
         \o ReadBack(string, i + 1)

test_println_output ==
    << println_m(<<TestString>>) >> \o ReadBack(TestString, 1)

---------------------------------------------------------------------------
(* main.rs *)

\* _start of the kernel
kernel_start ==
    << println_m(<<"Hello World ", "!">>),
       Call("init", <<>>),
       println_m(<<"It did not crash!">>),
       Call("hlt_loop", <<>>) >>

\* _start of the kernel's test build: test_main() runs between the two
kernel_test_start ==
    << println_m(<<"Hello World ", "!">>),
       Call("init", <<>>),
       Call("test_runner", <<>>),
       println_m(<<"It did not crash!">>),
       Call("hlt_loop", <<>>) >>

\* #[cfg(not(test))] panic
kernel_panic(info) ==
    << println_m(info),
       Call("hlt_loop", <<>>) >>

trivial_assertion == << AssertEq(1, 1) >>

---------------------------------------------------------------------------
(* tests/basic_boot.rs *)

basic_boot_start ==
    << Call("test_runner", <<>>),
       Jmp(2) >>

test_println == << println_m(<<"test_println output">>) >>

---------------------------------------------------------------------------
(* tests/should_panic.rs *)

should_panic_start ==
    << Call("should_fail", <<>>),
       serial_println_m(<<"[test did not panic]">>),
       Call("exit_qemu", <<"Failed">>),
       Jmp(4) >>

\* mutant: the panic handler reports the failure code
should_panic_panic_failed ==
    << serial_println_m(<<"[ok]">>),
       Call("exit_qemu", <<"Failed">>),
       Jmp(3) >>

should_panic_panic ==
    << serial_println_m(<<"[ok]">>),
       Call("exit_qemu", <<"Success">>),
       Jmp(3) >>

should_fail ==
    << serial_print_m(<<"should_panic::should_fail...\t">>),
       AssertEq(0, 1) >>

---------------------------------------------------------------------------
(* tests/stack_overflow.rs *)

\* mutant: the test table is loaded before gdt::init()
stack_overflow_start_idt_first ==
    << serial_print_m(<<"stack_overflow::stack_overflow..\t">>),
       Call("init_test_idt", <<>>),
       Call("gdt_init", <<>>),
       Call("stack_overflow", <<>>),
       PanicMacro(<<"Execution continued after stack overflow">>) >>

stack_overflow_start ==
    << serial_print_m(<<"stack_overflow::stack_overflow..\t">>),
       Call("gdt_init", <<>>),
       Call("init_test_idt", <<>>),
       Call("stack_overflow", <<>>),
       PanicMacro(<<"Execution continued after stack overflow">>) >>

test_double_fault_handler ==
    << serial_println_m(<<"[ok]">>),
       Call("exit_qemu", <<"Success">>),
       Jmp(3) >>

stack_overflow ==
    << Call("stack_overflow", <<>>),
       VolatileRead >>

---------------------------------------------------------------------------
(* The binaries *)

\* the test binary of the library when its harness runs test_println_output
LibTestOutput == "lib_test_output"

\* the tests the harness of each binary runs; those of the library are run
\* by two binaries, LibTestOutput has the test that reads the screen back
Tests(p) ==
    IF p = "kernel_test" THEN <<"trivial_assertion">>
    ELSE IF p = "lib_test"
    THEN <<"test_breakpoint_exception", "test_println_simple">>
    ELSE IF p = LibTestOutput THEN <<"test_println_output">>
    ELSE IF p = "basic_boot" THEN <<"test_println">>
    ELSE <<>>

\* the _start each binary links
Start(p) ==
    CASE p = "kernel" -> kernel_start
      [] p = "kernel_test" -> kernel_test_start
      [] p \in {"lib_test", LibTestOutput} -> lib_test_start
      [] p = "basic_boot" -> basic_boot_start
      [] p = "should_panic" -> should_panic_start
      [] p = "stack_overflow" -> stack_overflow_start

\* the #[panic_handler] each binary links
PanicHandler(p, info) ==
    CASE p = "kernel" -> kernel_panic(info)
      [] p = "should_panic" -> should_panic_panic
      [] OTHER -> test_panic(info)

\* the pseudo-function of a processor that was reset by a triple fault
TripleFault == "triple_fault"

\* code outside the library that calls its public functions
Caller == "caller"

\* the instructions of a frame's function
Body(p, fr) ==
    CASE fr.fn = "_start" -> Start(p)
      [] fr.fn = "panic" -> PanicHandler(p, fr.arg)
      [] fr.fn = "init" -> init
      [] fr.fn = "gdt_init" -> gdt_init
      [] fr.fn = "init_idt" -> init_idt
      [] fr.fn = "init_test_idt" -> init_test_idt
      [] fr.fn = "hlt_loop" -> hlt_loop
      [] fr.fn = "exit_qemu" -> exit_qemu(fr.arg)
      [] fr.fn = "vga_print" -> vga_print
      [] fr.fn = "serial_print" -> serial_print
      [] fr.fn = "test_runner" -> test_runner(Tests(p))
      [] fr.fn = "Testable_run" -> Testable_run(fr.arg)
      [] fr.fn = "test_panic_handler" -> test_panic_handler(fr.arg)
      [] fr.fn = "breakpoint_handler" -> breakpoint_handler
      [] fr.fn = "double_fault_handler" -> double_fault_handler
      [] fr.fn = "page_fault_handler" -> page_fault_handler
      [] fr.fn = "timer_interrupt_handler" -> timer_interrupt_handler
      [] fr.fn = "keyboard_interrupt_handler" -> keyboard_interrupt_handler
      [] fr.fn = "test_double_fault_handler" -> test_double_fault_handler
      [] fr.fn = "test_breakpoint_exception" -> test_breakpoint_exception
      [] fr.fn = "test_println_simple" -> test_println_simple
      [] fr.fn = "test_println_output" -> test_println_output
      [] fr.fn = "trivial_assertion" -> trivial_assertion
      [] fr.fn = "test_println" -> test_println
      [] fr.fn = "should_fail" -> should_fail
      [] fr.fn = "stack_overflow" -> stack_overflow
      [] fr.fn = TripleFault -> <<>>
      [] fr.fn = Caller -> <<>>

Functions ==
    {"_start", "panic", "init", "gdt_init", "init_idt", "init_test_idt",
     "hlt_loop", "exit_qemu", "vga_print", "serial_print", "test_runner",
     "Testable_run", "test_panic_handler", "breakpoint_handler",
     "double_fault_handler", "page_fault_handler", "timer_interrupt_handler",
     "keyboard_interrupt_handler", "test_double_fault_handler",
     "test_breakpoint_exception", "test_println_simple",
     "test_println_output", "trivial_assertion",
     "test_println", "should_fail", "stack_overflow"}

---------------------------------------------------------------------------
(* The machine *)

\* a frame: the function, the next instruction, the argument, whether an
\* interrupt gate pushed it (and the IF it saved), whether it runs on the
\* interrupt stack of the task-state segment, and the locals of the keyboard
\* handler and of test_println_output
Frame(f, a, gate, saved_if, ist) ==
    [fn |-> f, pc |-> 1, arg |-> a, gate |-> gate, saved_if |-> saved_if,
     ist |-> ist, scancode |-> 0, key_event |-> NoKeyEvent, key |-> NoKey,
     screen_char |-> Blank]

\* PanicInfo as the panic handler formats it
PanicInfo(msg) == <<"panicked at ">> \o msg

Init ==
    /\ prog \in Programs
    /\ stack = << Frame("_start", <<>>, FALSE, FALSE, FALSE) >>
    /\ rflags_if = FALSE
    /\ halted = FALSE
    /\ gdtr = "boot"
    /\ cs = [table |-> "boot", sel |-> 8]
    /\ tr = [table |-> "none", sel |-> 0]
    /\ idtr = "none"
    /\ built = [s \in Statics |-> 0]
    /\ pic = [initialized |-> 0]
    /\ locks = [l \in LockNames |-> 0]
    /\ KEYBOARD = [state |-> "Start", lshift |-> FALSE]
    /\ vga = <<>>
    /\ WRITER = WRITER_value
    /\ written = <<>>
    /\ serial = <<>>
    /\ port_f4 = <<>>
    /\ acks = <<>>
    /\ hwlog = <<>>
    /\ calls = [f \in Functions |-> IF f = "_start" THEN 1 ELSE 0]
    /\ irqs = 0
    /\ faults = 0

Top == stack[Len(stack)]
AtEnd == Top.pc > Len(Body(prog, Top))
Instr == Body(prog, Top)[Top.pc]
Is(op) == ~halted /\ ~AtEnd /\ Instr.op = op

Advance(st) == [st EXCEPT ![Len(st)].pc = @ + 1]
Goto(st, to) == [st EXCEPT ![Len(st)].pc = to]
Pop(st) == SubSeq(st, 1, Len(st) - 1)
Entered(f) == [calls EXCEPT ![f] = @ + 1]

\* frames on the kernel stack (the others are on the interrupt stack)
KernelStackUse == Cardinality({i \in 1..Len(stack) : ~stack[i].ist})

\* some handler is on the stack
InHandler == \E i \in 1..Len(stack) : stack[i].gate

\* the processor enters the handler of vector v through its interrupt gate:
\* the frame is pushed, on the interrupt stack if the entry names one, and
\* IF is cleared
Gate(st, v) ==
    LET entry == Table(idtr)[v]
    IN Append(st, Frame(entry.handler, <<>>, TRUE, rflags_if, entry.ist > 0))

Present(v) == Table(idtr)[v].handler # "missing"

ExecCall ==
    /\ Is("call")
    /\ Top.ist \/ KernelStackUse < KernelStackFrames
    /\ stack' = Append(Advance(stack),
                       Frame(Instr.f, Instr.arg, FALSE, FALSE, Top.ist))
    /\ calls' = Entered(Instr.f)
    /\ UNCHANGED <<prog, rflags_if, halted, gdtr, cs, tr, idtr, built, pic,
                   locks, KEYBOARD, vga, WRITER, written, serial, port_f4, acks, hwlog, irqs,
                   faults>>

\* the call does not fit: the push hits the guard page, the page fault
\* cannot push its frame either, and the processor raises a double fault.
\* The double fault is delivered on the interrupt stack its entry names; with
\* no such stack its frame cannot be pushed either, and the third fault
\* resets the processor
ExecStackOverflow ==
    /\ Is("call")
    /\ ~Top.ist /\ KernelStackUse >= KernelStackFrames
    /\ LET entry == Table(idtr)[DoubleFaultVector]
       IN IF entry.handler # "missing" /\ entry.ist > 0
          THEN /\ stack' = Gate(stack, DoubleFaultVector)
               /\ calls' = Entered(entry.handler)
               /\ halted' = halted
          ELSE /\ stack' = << Frame(TripleFault, <<>>, FALSE, FALSE, FALSE) >>
               /\ calls' = calls
               /\ halted' = TRUE
    /\ rflags_if' = FALSE
    /\ UNCHANGED <<prog, gdtr, cs, tr, idtr, built, pic, locks,
                   KEYBOARD, vga, WRITER, written, serial, port_f4, acks, hwlog, irqs, faults>>

ExecReturn ==
    /\ ~halted /\ AtEnd /\ ~Top.gate /\ Len(stack) > 1
    /\ stack' = Pop(stack)
    /\ UNCHANGED <<prog, rflags_if, halted, gdtr, cs, tr, idtr, built, pic,
                   locks, KEYBOARD, vga, WRITER, written, serial, port_f4, acks, hwlog, calls,
                   irqs, faults>>

\* iretq at the end of an extern "x86-interrupt" function
ExecIret ==
    /\ ~halted /\ AtEnd /\ Top.gate
    /\ stack' = Pop(stack)
    /\ rflags_if' = Top.saved_if
    /\ UNCHANGED <<prog, halted, gdtr, cs, tr, idtr, built, pic, locks,
                   KEYBOARD, vga, WRITER, written, serial, port_f4, acks, hwlog, calls, irqs,
                   faults>>

\* jmp of a loop; a volatile read only moves on
ExecJmp ==
    /\ ~halted /\ ~AtEnd /\ Instr.op \in {"jmp", "volatile_read"}
    /\ stack' = Goto(stack, IF Instr.op = "jmp" THEN Instr.to ELSE Top.pc + 1)
    /\ UNCHANGED <<prog, rflags_if, halted, gdtr, cs, tr, idtr, built, pic,
                   locks, KEYBOARD, vga, WRITER, written, serial, port_f4, acks, hwlog, calls,
                   irqs, faults>>

\* spin::Mutex::lock: spins until the mutex is free
ExecLock ==
    /\ Is("lock")
    /\ locks[Instr.l] = 0
    /\ locks' = [locks EXCEPT ![Instr.l] = Len(stack)]
    /\ stack' = Advance(stack)
    /\ UNCHANGED <<prog, rflags_if, halted, gdtr, cs, tr, idtr, built, pic,
                   KEYBOARD, vga, WRITER, written, serial, port_f4, acks, hwlog, calls, irqs,
                   faults>>

\* the guard is dropped
ExecUnlock ==
    /\ Is("unlock")
    /\ locks' = [locks EXCEPT ![Instr.l] = 0]
    /\ stack' = Advance(stack)
    /\ UNCHANGED <<prog, rflags_if, halted, gdtr, cs, tr, idtr, built, pic,
                   KEYBOARD, vga, WRITER, written, serial, port_f4, acks, hwlog, calls, irqs,
                   faults>>

\* write_fmt(args) on the locked sink and the unwrap() / expect() of its
\* result; the SerialPort accepts what it is given
ExecWriteFmt ==
    /\ Is("write_fmt")
    /\ LET w == write_fmt(Tracked(WRITER), Top.arg)
           ok == IF Instr.sink = "vga" THEN w.result = "Ok" ELSE TRUE
       IN /\ IF Instr.sink = "vga"
             THEN WRITER' = Untracked(w) /\ written' = w.written
             ELSE UNCHANGED <<WRITER, written>>
          /\ vga' = IF Instr.sink = "vga" /\ ok THEN Append(vga, Top.arg)
                    ELSE vga
          /\ stack' = IF ok THEN Advance(stack)
                      ELSE Append(stack,
                                  Frame("panic", PanicInfo(<<UnwrapFailed>>),
                                        FALSE, FALSE, Top.ist))
          /\ calls' = IF ok THEN calls ELSE Entered("panic")
    /\ serial' = IF Instr.sink = "serial" THEN Append(serial, Top.arg)
                 ELSE serial
    /\ UNCHANGED <<prog, rflags_if, halted, gdtr, cs, tr, idtr, built, pic,
                   locks, KEYBOARD, port_f4, acks, hwlog, irqs, faults>>

\* write_fmt(args) on SERIAL1 reports an error: expect() panics while the
\* guard of the statement is alive
SerialWriteFails ==
    /\ Is("write_fmt")
    /\ Instr.sink = "serial"
    /\ stack' = Append(stack,
                       Frame("panic", PanicInfo(<<ExpectFailed>>), FALSE,
                             FALSE, Top.ist))
    /\ calls' = Entered("panic")
    /\ UNCHANGED <<prog, rflags_if, halted, gdtr, cs, tr, idtr, built, pic,
                   locks, KEYBOARD, vga, WRITER, written, serial, port_f4,
                   acks, hwlog, irqs, faults>>

ExecDeref ==
    /\ Is("deref")
    /\ built' = lazy_static(built, Instr.s)
    /\ stack' = Advance(stack)
    /\ UNCHANGED <<prog, rflags_if, halted, gdtr, cs, tr, idtr, pic, locks,
                   KEYBOARD, vga, WRITER, written, serial, port_f4, acks, hwlog, calls, irqs,
                   faults>>

ExecLgdt ==
    /\ Is("lgdt")
    /\ gdtr' = Instr.t
    /\ hwlog' = Append(hwlog, "lgdt")
    /\ stack' = Advance(stack)
    /\ UNCHANGED <<prog, rflags_if, halted, cs, tr, idtr, built, pic, locks,
                   KEYBOARD, vga, WRITER, written, serial, port_f4, acks, calls, irqs, faults>>

ExecSetCs ==
    /\ Is("set_cs")
    /\ cs' = [table |-> Instr.t, sel |-> GDT_value[Instr.field]]
    /\ hwlog' = Append(hwlog, "set_cs")
    /\ stack' = Advance(stack)
    /\ UNCHANGED <<prog, rflags_if, halted, gdtr, tr, idtr, built, pic, locks,
                   KEYBOARD, vga, WRITER, written, serial, port_f4, acks, calls, irqs, faults>>

\* ltr marks the task-state descriptor busy; loading a busy descriptor
\* raises a general-protection fault. Neither table has an entry for it, so
\* it becomes a double fault, or a reset where that cannot be delivered
ExecLoadTss ==
    /\ Is("load_tss")
    /\ LET sel == GDT_value[Instr.field]
           busy == tr.table = Instr.t /\ tr.sel = sel
       IN IF ~busy
          THEN /\ tr' = [table |-> Instr.t, sel |-> sel]
               /\ hwlog' = Append(hwlog, "load_tss")
               /\ stack' = Advance(stack)
               /\ UNCHANGED <<rflags_if, halted, calls>>
          ELSE /\ UNCHANGED <<tr, hwlog>>
               /\ rflags_if' = FALSE
               /\ IF Present(GeneralProtectionVector)
                  THEN /\ stack' = Gate(stack, GeneralProtectionVector)
                       /\ calls' = Entered(
                             Table(idtr)[GeneralProtectionVector].handler)
                       /\ halted' = halted
                  ELSE IF Present(DoubleFaultVector)
                  THEN /\ stack' = Gate(stack, DoubleFaultVector)
                       /\ calls' = Entered(
                             Table(idtr)[DoubleFaultVector].handler)
                       /\ halted' = halted
                  ELSE /\ stack' = << Frame(TripleFault, <<>>, FALSE, FALSE,
                                            FALSE) >>
                       /\ calls' = calls
                       /\ halted' = TRUE
    /\ UNCHANGED <<prog, gdtr, cs, idtr, built, pic, locks,
                   KEYBOARD, vga, WRITER, written, serial, port_f4, acks, irqs, faults>>

ExecLidt ==
    /\ Is("lidt")
    /\ idtr' = Instr.t
    /\ hwlog' = Append(hwlog, "lidt")
    /\ stack' = Advance(stack)
    /\ UNCHANGED <<prog, rflags_if, halted, gdtr, cs, tr, built, pic, locks,
                   KEYBOARD, vga, WRITER, written, serial, port_f4, acks, calls, irqs, faults>>

\* ChainedPics::initialize: the remap to PIC_1_OFFSET / PIC_2_OFFSET
ExecPicInitialize ==
    /\ Is("pic_initialize")
    /\ pic' = [pic EXCEPT !.initialized = @ + 1]
    /\ hwlog' = Append(hwlog, "pic_initialize")
    /\ stack' = Advance(stack)
    /\ UNCHANGED <<prog, rflags_if, halted, gdtr, cs, tr, idtr, built, locks,
                   KEYBOARD, vga, WRITER, written, serial, port_f4, acks, calls, irqs, faults>>

\* x86_64::instructions::interrupts::enable
ExecSti ==
    /\ Is("sti")
    /\ rflags_if' = TRUE
    /\ hwlog' = Append(hwlog, "sti")
    /\ stack' = Advance(stack)
    /\ UNCHANGED <<prog, halted, gdtr, cs, tr, idtr, built, pic, locks,
                   KEYBOARD, vga, WRITER, written, serial, port_f4, acks, calls, irqs, faults>>

\* hlt: the processor stops until the next interrupt
ExecHlt ==
    /\ Is("hlt")
    /\ halted' = TRUE
    /\ stack' = Advance(stack)
    /\ UNCHANGED <<prog, rflags_if, gdtr, cs, tr, idtr, built, pic, locks,
                   KEYBOARD, vga, WRITER, written, serial, port_f4, acks, hwlog, calls, irqs,
                   faults>>

\* int3: the trap returns to the instruction after it
ExecInt3 ==
    /\ Is("int3")
    /\ Present(BreakpointVector)
    /\ stack' = Gate(Advance(stack), BreakpointVector)
    /\ rflags_if' = FALSE
    /\ calls' = Entered(Table(idtr)[BreakpointVector].handler)
    /\ UNCHANGED <<prog, halted, gdtr, cs, tr, idtr, built, pic, locks,
                   KEYBOARD, vga, WRITER, written, serial, port_f4, acks, hwlog, irqs, faults>>

ExecOutl ==
    /\ Is("outl")
    /\ port_f4' = Append(port_f4, Instr.code)
    /\ stack' = Advance(stack)
    /\ UNCHANGED <<prog, rflags_if, halted, gdtr, cs, tr, idtr, built, pic,
                   locks, KEYBOARD, vga, WRITER, written, serial, acks, hwlog, calls, irqs,
                   faults>>

ExecEoi ==
    /\ Is("eoi")
    /\ acks' = acks \o notify_end_of_interrupt(Instr.v)
    /\ stack' = Advance(stack)
    /\ UNCHANGED <<prog, rflags_if, halted, gdtr, cs, tr, idtr, built, pic,
                   locks, KEYBOARD, vga, WRITER, written, serial, port_f4, hwlog, calls, irqs,
                   faults>>

\* port.read() of the keyboard data port: whatever the keyboard sent
ExecInb ==
    /\ Is("inb")
    /\ \E byte \in Scancodes(KEYBOARD) :
          stack' = Advance([stack EXCEPT ![Len(stack)].scancode = byte])
    /\ UNCHANGED <<prog, rflags_if, halted, gdtr, cs, tr, idtr, built, pic,
                   locks, KEYBOARD, vga, WRITER, written, serial, port_f4, acks, hwlog, calls,
                   irqs, faults>>

\* if let Ok(Some(key_event)) = keyboard.add_byte(scancode)
ExecAddByte ==
    /\ Is("add_byte")
    /\ LET r == add_byte(KEYBOARD, Top.scancode)
       IN /\ KEYBOARD' = r.kb
          /\ stack' = IF r.res.tag = "Some"
                      THEN Advance([stack EXCEPT
                                      ![Len(stack)].key_event = r.res])
                      ELSE Goto([stack EXCEPT ![Len(stack)].key_event = r.res],
                                Instr.else)
    /\ UNCHANGED <<prog, rflags_if, halted, gdtr, cs, tr, idtr, built, pic,
                   locks, vga, WRITER, written, serial, port_f4, acks, hwlog, calls, irqs,
                   faults>>

\* if let Some(key) = keyboard.process_keyevent(key_event)
ExecProcessKeyevent ==
    /\ Is("process_keyevent")
    /\ LET r == process_keyevent(KEYBOARD, Top.key_event)
       IN /\ KEYBOARD' = r.kb
          /\ stack' = IF r.key.tag # "None"
                      THEN Advance([stack EXCEPT ![Len(stack)].key = r.key])
                      ELSE Goto(stack, Instr.else)
    /\ UNCHANGED <<prog, rflags_if, halted, gdtr, cs, tr, idtr, built, pic,
                   locks, vga, WRITER, written, serial, port_f4, acks, hwlog, calls, irqs,
                   faults>>

\* match key: both arms are a print! of the decoded key
ExecPrintKey ==
    /\ Is("print_key")
    /\ stack' = Append(Advance(stack),
                       Frame("vga_print", <<Top.key.val>>, FALSE, FALSE,
                             Top.ist))
    /\ calls' = Entered("vga_print")
    /\ UNCHANGED <<prog, rflags_if, halted, gdtr, cs, tr, idtr, built, pic,
                   locks, KEYBOARD, vga, WRITER, written, serial, port_f4, acks, hwlog, irqs,
                   faults>>

\* panic!: the panic handler is entered and never returns
ExecPanic ==
    /\ Is("panic")
    /\ stack' = Append(stack,
                       Frame("panic", PanicInfo(Instr.msg), FALSE, FALSE,
                             Top.ist))
    /\ calls' = Entered("panic")
    /\ UNCHANGED <<prog, rflags_if, halted, gdtr, cs, tr, idtr, built, pic,
                   locks, KEYBOARD, vga, WRITER, written, serial, port_f4, acks, hwlog, irqs,
                   faults>>

\* buffer.chars[row][col].read() under the guard of WRITER
ExecReadCell ==
    /\ Is("read_cell")
    /\ stack' = Advance([stack EXCEPT ![Len(stack)].screen_char =
                                        WRITER.chars[Instr.row][Instr.col]])
    /\ UNCHANGED <<prog, rflags_if, halted, gdtr, cs, tr, idtr, built, pic,
                   locks, KEYBOARD, vga, WRITER, written, serial, port_f4, acks,
                   hwlog, calls, irqs, faults>>

\* assert_eq!: panics unless the two sides are equal; the left side is a
\* literal or the character read from the screen
ExecAssertEq ==
    /\ Is("assert_eq")
    /\ LET equal == IF "char" \in DOMAIN Instr
                    THEN Top.screen_char = Instr.char
                    ELSE Instr.left = Instr.right
       IN /\ stack' = IF equal
                      THEN Advance(stack)
                      ELSE Append(stack,
                                  Frame("panic",
                                        PanicInfo(<<"assertion failed">>),
                                        FALSE, FALSE, Top.ist))
          /\ calls' = IF equal THEN calls ELSE Entered("panic")
    /\ UNCHANGED <<prog, rflags_if, halted, gdtr, cs, tr, idtr, built, pic,
                   locks, KEYBOARD, vga, WRITER, written, serial, port_f4, acks, hwlog, irqs,
                   faults>>

\* the lines of the primary controller with a device that raises them: the
\* timer (line 0) and the keyboard (line 1)
IrqLines == {0, 1}

\* the controller raises the timer or the keyboard line and sends the vector
\* it was remapped to; the processor takes the interrupt between two
\* instructions, or out of hlt
Interrupt ==
    /\ rflags_if
    /\ pic.initialized > 0
    /\ irqs < MaxIrq
    /\ \E line \in IrqLines :
          LET v == PICS_value.primary + line
          IN /\ Present(v)
             /\ stack' = Gate(stack, v)
             /\ calls' = Entered(Table(idtr)[v].handler)
    /\ rflags_if' = FALSE
    /\ halted' = FALSE
    /\ acks' = <<>>
    /\ irqs' = irqs + 1
    /\ UNCHANGED <<prog, gdtr, cs, tr, idtr, built, pic, locks, KEYBOARD, vga, WRITER, written,
                   serial, port_f4, hwlog, faults>>

\* the processor raises a double fault or a page fault in code that is not
\* a handler
Fault ==
    /\ ~halted
    /\ ~InHandler
    /\ faults < MaxFaults
    /\ irqs <= MaxIrqBeforeFault
    /\ \E v \in {DoubleFaultVector, PageFaultVector} :
          /\ Present(v)
          /\ stack' = Gate(stack, v)
          /\ calls' = Entered(Table(idtr)[v].handler)
    /\ rflags_if' = FALSE
    /\ faults' = faults + 1
    /\ UNCHANGED <<prog, halted, gdtr, cs, tr, idtr, built, pic, locks,
                   KEYBOARD, vga, WRITER, written, serial, port_f4, acks, hwlog, irqs>>

Next ==
    \/ ExecCall
    \/ ExecStackOverflow
    \/ ExecReturn
    \/ ExecIret
    \/ ExecJmp
    \/ ExecLock
    \/ ExecUnlock
    \/ ExecWriteFmt
    \/ ExecDeref
    \/ ExecLgdt
    \/ ExecSetCs
    \/ ExecLoadTss
    \/ ExecLidt
    \/ ExecPicInitialize
    \/ ExecSti
    \/ ExecHlt
    \/ ExecInt3
    \/ ExecOutl
    \/ ExecEoi
    \/ ExecInb
    \/ ExecAddByte
    \/ ExecProcessKeyevent
    \/ ExecPrintKey
    \/ ExecPanic
    \/ ExecAssertEq
    \/ Interrupt
    \/ Fault

Spec == Init /\ [][Next]_vars

\* the processor executes the next instruction whenever there is one
FairSpec == Spec /\ WF_vars(Next)

---------------------------------------------------------------------------
(* The public functions of the library called any number of times: the     *)
(* kernel's code calls gdt::init(), init_idt() and init() in any order and *)
(* executes breakpoint traps once a table is loaded                        *)

PublicFunctions == {"gdt_init", "init_idt", "init", "test_breakpoint_exception"}

CallerInit ==
    /\ prog = "kernel"
    /\ stack = << Frame(Caller, <<>>, FALSE, FALSE, FALSE) >>
    /\ rflags_if = FALSE
    /\ halted = FALSE
    /\ gdtr = "boot"
    /\ cs = [table |-> "boot", sel |-> 8]
    /\ tr = [table |-> "none", sel |-> 0]
    /\ idtr = "none"
    /\ built = [s \in Statics |-> 0]
    /\ pic = [initialized |-> 0]
    /\ locks = [l \in LockNames |-> 0]
    /\ KEYBOARD = [state |-> "Start", lshift |-> FALSE]
    /\ vga = <<>>
    /\ WRITER = WRITER_value
    /\ written = <<>>
    /\ serial = <<>>
    /\ port_f4 = <<>>
    /\ acks = <<>>
    /\ hwlog = <<>>
    /\ calls = [f \in Functions |-> 0]
    /\ irqs = 0
    /\ faults = 0

\* the caller, between two of its calls, calls one more public function; its
\* frame counts the calls
CallPublic ==
    /\ ~halted
    /\ Top.fn = Caller
    /\ Top.pc <= MaxCalls
    /\ \E f \in PublicFunctions :
          /\ (f = "test_breakpoint_exception" => idtr = "IDT")
          /\ stack' = Append(Advance(stack),
                             Frame(f, <<>>, FALSE, FALSE, FALSE))
          /\ calls' = Entered(f)
    /\ UNCHANGED <<prog, rflags_if, halted, gdtr, cs, tr, idtr, built, pic,
                   locks, KEYBOARD, vga, WRITER, written, serial, port_f4, acks, hwlog, irqs,
                   faults>>

CallerNext ==
    \/ CallPublic
    \/ ExecCall
    \/ ExecReturn
    \/ ExecIret
    \/ ExecLock
    \/ ExecUnlock
    \/ ExecWriteFmt
    \/ ExecDeref
    \/ ExecLgdt
    \/ ExecSetCs
    \/ ExecLoadTss
    \/ ExecLidt
    \/ ExecPicInitialize
    \/ ExecSti
    \/ ExecHlt
    \/ ExecInt3
    \/ ExecEoi
    \/ ExecInb
    \/ ExecAddByte
    \/ ExecProcessKeyevent
    \/ ExecPrintKey
    \/ ExecPanic
    \/ Interrupt
    \/ Fault

CallerSpec == CallerInit /\ [][CallerNext]_vars

---------------------------------------------------------------------------
(* The test binary of the library running test_println_output: the boot    *)
(* path of lib_test_start with init(), then the harness with the test that *)
(* prints a line and reads it back from the screen, under timer and         *)
(* keyboard interrupts (no processor fault is injected here)               *)

OutputInit ==
    /\ prog = LibTestOutput
    /\ stack = << Frame("_start", <<>>, FALSE, FALSE, FALSE) >>
    /\ rflags_if = FALSE
    /\ halted = FALSE
    /\ gdtr = "boot"
    /\ cs = [table |-> "boot", sel |-> 8]
    /\ tr = [table |-> "none", sel |-> 0]
    /\ idtr = "none"
    /\ built = [s \in Statics |-> 0]
    /\ pic = [initialized |-> 0]
    /\ locks = [l \in LockNames |-> 0]
    /\ KEYBOARD = [state |-> "Start", lshift |-> FALSE]
    /\ vga = <<>>
    /\ WRITER = WRITER_value
    /\ written = <<>>
    /\ serial = <<>>
    /\ port_f4 = <<>>
    /\ acks = <<>>
    /\ hwlog = <<>>
    /\ calls = [f \in Functions |-> IF f = "_start" THEN 1 ELSE 0]
    /\ irqs = 0
    /\ faults = 0

OutputNext ==
    \/ ExecCall
    \/ ExecReturn
    \/ ExecIret
    \/ ExecJmp
    \/ ExecLock
    \/ ExecUnlock
    \/ ExecWriteFmt
    \/ ExecDeref
    \/ ExecLgdt
    \/ ExecSetCs
    \/ ExecLoadTss
    \/ ExecLidt
    \/ ExecPicInitialize
    \/ ExecSti
    \/ ExecHlt
    \/ ExecOutl
    \/ ExecEoi
    \/ ExecInb
    \/ ExecAddByte
    \/ ExecProcessKeyevent
    \/ ExecPrintKey
    \/ ExecReadCell
    \/ ExecAssertEq
    \/ Interrupt

OutputSpec == OutputInit /\ [][OutputNext]_vars

\* the processor executes the next instruction whenever there is one
FairOutputSpec == OutputSpec /\ WF_vars(OutputNext)

---------------------------------------------------------------------------
(* The six binaries on a serial port whose write may report an error: what *)
(* SerialPort::write_fmt returns is decided outside this repository        *)

SinkNext ==
    \/ Next
    \/ SerialWriteFails

SinkSpec == Init /\ [][SinkNext]_vars

---------------------------------------------------------------------------
(* The Writer alone: write_byte and write_string called any number of      *)
(* times, with any bytes, on a Writer in any column                        *)

RECURSIVE Repeat(_, _)
Repeat(s, n) == IF n = 0 THEN "" ELSE s \o Repeat(s, n - 1)

\* the Writer after n characters were written to the empty screen
FilledTo(n) == Untracked(write_string(Tracked(WRITER_value), Repeat("x", n)))

\* bytes passed to write_byte: a printable one, the newline, one that is
\* neither
Bytes == {"a", "\n", "\t"}

\* strings passed to write_string: the empty one, the line of
\* test_println_many, text with an unprintable byte, a line longer than the
\* screen is wide, more newlines than the screen has rows
Strings ==
    {"", "test_println_many output\n", "a\tb",
     Repeat("w", BUFFER_WIDTH + 1), Repeat("\n", BUFFER_HEIGHT + 1)}

WriterInit ==
    /\ prog = "kernel"
    /\ stack = << Frame(Caller, <<>>, FALSE, FALSE, FALSE) >>
    /\ rflags_if = FALSE
    /\ halted = FALSE
    /\ gdtr = "boot"
    /\ cs = [table |-> "boot", sel |-> 8]
    /\ tr = [table |-> "none", sel |-> 0]
    /\ idtr = "none"
    /\ built = [s \in Statics |-> 0]
    /\ pic = [initialized |-> 0]
    /\ locks = [l \in LockNames |-> 0]
    /\ KEYBOARD = [state |-> "Start", lshift |-> FALSE]
    /\ vga = <<>>
    /\ WRITER \in {FilledTo(n) : n \in 0..BUFFER_WIDTH}
    /\ written = <<>>
    /\ serial = <<>>
    /\ port_f4 = <<>>
    /\ acks = <<>>
    /\ hwlog = <<>>
    /\ calls = [f \in Functions |-> 0]
    /\ irqs = 0
    /\ faults = 0

\* one call of new_line; the caller's frame counts the calls
NewLine ==
    /\ Top.fn = Caller
    /\ Top.pc <= MaxWrites
    /\ LET w == new_line(Tracked(WRITER))
       IN WRITER' = Untracked(w) /\ written' = w.written
    /\ stack' = Advance(stack)
    /\ UNCHANGED <<prog, rflags_if, halted, gdtr, cs, tr, idtr, built, pic,
                   locks, KEYBOARD, vga, serial, port_f4, acks, hwlog, calls,
                   irqs, faults>>

\* one call of write_byte; the byte it was called with is logged
WriteByte ==
    /\ Top.fn = Caller
    /\ Top.pc <= MaxWrites
    /\ \E byte \in Bytes :
          /\ LET w == write_byte(Tracked(WRITER), byte)
             IN WRITER' = Untracked(w) /\ written' = w.written
          /\ vga' = Append(vga, <<byte>>)
    /\ stack' = Advance(stack)
    /\ UNCHANGED <<prog, rflags_if, halted, gdtr, cs, tr, idtr, built, pic,
                   locks, KEYBOARD, serial, port_f4, acks, hwlog, calls,
                   irqs, faults>>

\* one call of write_string; the string it was called with is logged
WriteString ==
    /\ Top.fn = Caller
    /\ Top.pc <= MaxWrites
    /\ \E s \in Strings :
          /\ LET w == write_string(Tracked(WRITER), s)
             IN WRITER' = Untracked(w) /\ written' = w.written
          /\ vga' = Append(vga, <<s>>)
    /\ stack' = Advance(stack)
    /\ UNCHANGED <<prog, rflags_if, halted, gdtr, cs, tr, idtr, built, pic,
                   locks, KEYBOARD, serial, port_f4, acks, hwlog, calls,
                   irqs, faults>>

WriterNext ==
    \/ NewLine
    \/ WriteByte
    \/ WriteString

WriterSpec == WriterInit /\ [][WriterNext]_vars

---------------------------------------------------------------------------
(* Vocabulary of the properties *)

IsPrefix(s, t) == Len(s) <= Len(t) /\ s = SubSeq(t, 1, Len(s))

\* how often op occurs in the log of privileged operations
Count(op) == Cardinality({i \in 1..Len(hwlog) : hwlog[i] = op})

\* op was executed, and before the i-th operation of the log
Before(op, i) == \E j \in 1..(i - 1) : hwlog[j] = op

OnStack(f) == \E i \in 1..Len(stack) : stack[i].fn = f

\* the binaries whose _start calls init()
CallsInit == {"kernel", "kernel_test", "lib_test"}

\* the order of §4.5
InitOrder ==
    <<"lgdt", "set_cs", "load_tss", "lidt", "pic_initialize", "sti">>

\* init() has executed its last statement
InitCompleted ==
    /\ calls["init"] = 1
    /\ \A i \in 1..Len(stack) :
          stack[i].fn = "init" => stack[i].pc > Len(init)

\* the descriptor a selector refers to in the constructed segment table
DescriptorAt(sel) == GDT_value.table[(sel \div 8) + 1]

\* the top frame spins on a mutex somebody below it holds
Blocked == Is("lock") /\ locks[Instr.l] # 0

---------------------------------------------------------------------------
(* C1: one call of init() loads the segment table, sets CS, loads the task  *)
(* register, loads the exception table, initializes the interrupt          *)
(* controller and enables interrupts, in exactly this order and each at    *)
(* most once; when init() has completed, all six have been done.           *)
C1_InitOrder ==
    prog \in CallsInit =>
        /\ IsPrefix(hwlog, InitOrder)
        /\ (hwlog # <<>> => calls["init"] = 1)
        /\ (InitCompleted => hwlog = InitOrder)

C1_Witness ==
    /\ prog = "kernel"
    /\ InitCompleted
    /\ hwlog = InitOrder
    /\ ~OnStack("init")

---------------------------------------------------------------------------
(* C2: in gdt::init both descriptors are in the table before it is loaded, *)
(* the table is loaded exactly once, then CS is set to the selector of the *)
(* kernel code segment and after that the task register is loaded with    *)
(* the selector of the task-state segment; both selectors come from the    *)
(* loaded table and are never swapped.                                     *)
C2_GdtInit ==
    /\ IsPrefix(SelectSeq(hwlog,
                          LAMBDA op : op \in {"lgdt", "set_cs", "load_tss"}),
                <<"lgdt", "set_cs", "load_tss">>)
    /\ (gdtr = "GDT" =>
          /\ built["GDT"] = 1 /\ built["TSS"] = 1
          /\ \E i \in 1..Len(GDT_value.table) :
                GDT_value.table[i] = "kernel_code"
          /\ \E i \in 1..Len(GDT_value.table) :
                GDT_value.table[i] = "tss_low")
    /\ (cs.table # "boot" =>
          /\ cs.table = gdtr /\ gdtr = "GDT"
          /\ DescriptorAt(cs.sel) = "kernel_code")
    /\ (tr.table # "none" =>
          /\ tr.table = gdtr /\ gdtr = "GDT"
          /\ cs.table = "GDT"
          /\ DescriptorAt(tr.sel) = "tss_low")
    /\ (calls["gdt_init"] > 0 /\ ~OnStack("gdt_init") =>
          Count("lgdt") = 1 /\ cs.table = "GDT" /\ tr.table = "GDT")

C2_Witness ==
    /\ prog = "stack_overflow"
    /\ calls["gdt_init"] = 1 /\ ~OnStack("gdt_init")
    /\ cs = [table |-> "GDT", sel |-> 8]
    /\ tr = [table |-> "GDT", sel |-> 16]

---------------------------------------------------------------------------
(* C3: in every boot path init() is invoked at most once; whenever         *)
(* interrupts are enabled, and whenever a hardware interrupt has been      *)
(* delivered, the segment table is loaded, CS and the task register are    *)
(* set, the exception table is loaded and the interrupt controller has     *)
(* been initialized exactly once; no timer or keyboard handler runs before *)
(* init() has completed.                                                   *)
C3_InitBeforeInterrupts ==
    /\ calls["init"] <= 1
    /\ (rflags_if \/ irqs > 0
        \/ OnStack("timer_interrupt_handler")
        \/ OnStack("keyboard_interrupt_handler") =>
          /\ InitCompleted
          /\ gdtr = "GDT" /\ cs.table = "GDT" /\ tr.table = "GDT"
          /\ idtr = "IDT"
          /\ pic.initialized = 1
          /\ Count("lgdt") = 1 /\ Count("lidt") = 1 /\ Count("sti") = 1)

C3_Witness ==
    /\ prog = "lib_test"
    /\ OnStack("keyboard_interrupt_handler")
    /\ irqs = 2
    /\ InitCompleted

---------------------------------------------------------------------------
(* C4: wherever an exception table is loaded (init() through init_idt, and *)
(* init_test_idt in the stack_overflow test), the segment table has been   *)
(* loaded and the code-segment register updated before.                    *)
C4_IdtAfterGdt ==
    /\ \A i \in 1..Len(hwlog) :
          hwlog[i] = "lidt" => Before("lgdt", i) /\ Before("set_cs", i)
    /\ (idtr # "none" => gdtr = "GDT" /\ cs.table = "GDT")

C4_Witness ==
    /\ prog = "stack_overflow"
    /\ idtr = "TEST_IDT"
    /\ hwlog = <<"lgdt", "set_cs", "load_tss", "lidt">>

---------------------------------------------------------------------------
(* Vocabulary of the handler properties *)

TimerHandler == "timer_interrupt_handler"
KeyboardHandler == "keyboard_interrupt_handler"

\* the handler's frame is the top frame and has executed its last statement
Returning(f) == Top.fn = f /\ AtEnd

\* the frames below the frame of f, if f has one
Interrupted(st, f) ==
    IF \E i \in 1..Len(st) : st[i].fn = f
    THEN SubSeq(st, 1, (CHOOSE i \in 1..Len(st) : st[i].fn = f) - 1)
    ELSE st

\* the sink the panic handler of the binary reports to
Reported(text) ==
    IF prog = "kernel"
    THEN \E i \in 1..Len(vga) : \E j \in 1..Len(vga[i]) : vga[i][j] = text
    ELSE \E i \in 1..Len(serial) :
            \E j \in 1..Len(serial[i]) : serial[i][j] = text

\* records on the screen that begin with text
Records(text) == Cardinality({i \in 1..Len(vga) : Head(vga[i]) = text})

---------------------------------------------------------------------------
(* C5: every invocation of the timer handler issues exactly one            *)
(* end-of-interrupt, for vector 32, which reaches the primary controller   *)
(* only, whatever code the timer interrupt preempted.                      *)
C5_TimerAcksOnce ==
    /\ [](Returning(TimerHandler) => acks = <<"PIC1">>)
    /\ (OnStack(TimerHandler)
          ~> (Returning(TimerHandler) /\ acks = <<"PIC1">>))

---------------------------------------------------------------------------
(* C6: the timer handler never blocks: at no point of an invocation does   *)
(* it wait for a lock that the code it preempted holds.                    *)
C6_TimerNeverBlocks == OnStack(TimerHandler) => ~Blocked

---------------------------------------------------------------------------
(* C7: every invocation of the keyboard handler issues exactly one         *)
(* end-of-interrupt on every path through the handler, and for scancode    *)
(* 0x1E with no modifier active the character a has been forwarded to the  *)
(* sink when that acknowledge is issued.                                   *)
C7_KeyboardAcksOnce ==
    /\ [](Returning(KeyboardHandler) => acks = <<"PIC1">>)
    /\ [](/\ Top.fn = KeyboardHandler /\ Top.scancode = 30
          /\ ~KEYBOARD.lshift /\ Top.pc > 6
          => vga # <<>> /\ vga[Len(vga)] = <<"a">>)
    /\ (OnStack(KeyboardHandler)
          ~> (Returning(KeyboardHandler) /\ acks = <<"PIC1">>))

---------------------------------------------------------------------------
(* C8: when add_byte rejects the byte, the keyboard handler forwards       *)
(* nothing to a sink, does not panic or halt, is never kept waiting, and   *)
(* returns having issued its single acknowledge.                           *)
Rejected(i) ==
    stack[i].fn = KeyboardHandler /\ stack[i].key_event.tag = "Err"

C8_RejectedByte ==
    /\ [](\A i \in 1..Len(stack) :
            Rejected(i) =>
              /\ i = Len(stack)
              /\ ~halted /\ ~Blocked
              /\ acks \in {<<>>, <<"PIC1">>}
              /\ (AtEnd => acks = <<"PIC1">> /\ locks["KEYBOARD"] = 0
                           /\ locks["PICS"] = 0))
    /\ [][(\E i \in 1..Len(stack) : Rejected(i)) =>
            /\ vga' = vga /\ serial' = serial
            /\ calls'["panic"] = calls["panic"]
            /\ Len(stack') <= Len(stack)]_vars

C8_Witness ==
    /\ Rejected(Len(stack))
    /\ Top.scancode = 255
    /\ AtEnd
    /\ acks = <<"PIC1">>

---------------------------------------------------------------------------
(* C9: after init(), an executed int3 invokes the breakpoint handler       *)
(* exactly once; the handler emits one record that begins with             *)
(* EXCEPTION: BREAKPOINT, is never kept waiting, and returns to the        *)
(* instruction after the trap; the system neither halts nor panics in it.  *)
C9_Breakpoint ==
    /\ calls["breakpoint_handler"] <= calls["test_breakpoint_exception"]
    /\ (calls["breakpoint_handler"] > 0 => InitCompleted)
    /\ \A i \in 1..Len(stack) :
          /\ (stack[i].fn = "test_breakpoint_exception" /\ stack[i].pc > 1
                => calls["breakpoint_handler"] = 1)
          /\ (stack[i].fn = "breakpoint_handler" =>
                /\ i > 1
                /\ stack[i - 1].fn = "test_breakpoint_exception"
                /\ stack[i - 1].pc = 2
                /\ stack[i].saved_if /\ ~rflags_if
                /\ ~halted /\ ~Blocked /\ ~OnStack("panic")
                /\ Len(stack) <= i + 1
                /\ Records("EXCEPTION: BREAKPOINT\n")
                     = (IF stack[i].pc > 1 /\ (i = Len(stack) \/ Top.pc > 2)
                        THEN 1 ELSE 0))
    /\ (calls["breakpoint_handler"] = 1 /\ ~OnStack("breakpoint_handler")
          => Records("EXCEPTION: BREAKPOINT\n") = 1)

C9_Witness ==
    /\ prog = "lib_test"
    /\ Top.fn = "test_breakpoint_exception" /\ Top.pc = 2
    /\ calls["breakpoint_handler"] = 1
    /\ Records("EXCEPTION: BREAKPOINT\n") = 1
    /\ rflags_if

---------------------------------------------------------------------------
(* C10: once the double-fault handler has been entered, control never      *)
(* returns to the interrupted instruction stream; the panic handler emits  *)
(* the EXCEPTION: DOUBLE FAULT report and the system ends in the halt      *)
(* loop, in a test build after the Failed code was written to the          *)
(* shutdown port.                                                          *)
C10_DoubleFaultHalts ==
    /\ [][OnStack("double_fault_handler") =>
            /\ OnStack("double_fault_handler")'
            /\ Interrupted(stack', "double_fault_handler")
                 = Interrupted(stack, "double_fault_handler")]_vars
    /\ (OnStack("double_fault_handler")
          ~> (/\ halted /\ Top.fn = "hlt_loop"
              /\ Reported("EXCEPTION: DOUBLE FAULT\n")
              /\ (prog # "kernel" =>
                    port_f4 # <<>> /\ port_f4[Len(port_f4)] = Failed)))

---------------------------------------------------------------------------
(* C11: in the stack_overflow test the recursion ends in the double-fault  *)
(* handler of the test table, which runs on the interrupt stack of slot 0  *)
(* of the task state, emits [ok] and writes the Success code; the panic!   *)
(* after stack_overflow() is never reached and nothing in the handler      *)
(* faults again.                                                           *)
TestHandler == "test_double_fault_handler"

\* every frame from the handler's frame upwards is on the interrupt stack
OnInterruptStack(f) ==
    \A i \in 1..Len(stack) :
        stack[i].fn = f => \A j \in i..Len(stack) : stack[j].ist

C11_StackOverflow ==
    /\ [](prog = "stack_overflow" =>
            /\ calls["panic"] = 0
            /\ ~(Top.fn = "_start" /\ Top.pc > 4)
            /\ ~OnStack(TripleFault)
            /\ calls[TestHandler] <= 1
            /\ (OnStack(TestHandler) =>
                  /\ idtr = "TEST_IDT"
                  /\ Table(idtr)[DoubleFaultVector].ist
                       = DOUBLE_FAULT_IST_INDEX + 1
                  /\ DescriptorAt(tr.sel) = "tss_low"
                  /\ TSS_value.interrupt_stack_table[DOUBLE_FAULT_IST_INDEX]
                       = StackStart + STACK_SIZE
                  /\ OnInterruptStack(TestHandler)
                  /\ ~Blocked)
            /\ (port_f4 # <<>> =>
                  /\ port_f4 = <<Success>>
                  /\ serial[Len(serial)] = <<"[ok]", "\n">>))
    /\ (prog = "stack_overflow"
          ~> (Top.fn = TestHandler /\ port_f4 = <<Success>>))

C11_Witness ==
    /\ prog = "stack_overflow"
    /\ faults = 0
    /\ KernelStackUse = KernelStackFrames
    /\ Top.fn = TestHandler /\ Top.ist
    /\ port_f4 = <<Success>>

---------------------------------------------------------------------------
(* C12: the page-fault handler emits the EXCEPTION: PAGE FAULT line, the   *)
(* address read from CR2, the error code and the captured frame, in this   *)
(* order, then enters the halt loop and never returns; once it is entered  *)
(* the faulting instruction stream does not execute again.                 *)
PageFaultHandler == "page_fault_handler"

PageFaultReport ==
    << <<"EXCEPTION: PAGE FAULT", "\n">>,
       <<"ACCESSED ADDRESS: ", "cr2", "\n">>,
       <<"ERROR CODE: ", "error_code", "\n">>,
       <<"stack_frame", "\n">> >>

\* the records the handler whose frame is stack[i] has written so far
Emitted(i) ==
    IF i = Len(stack) THEN stack[i].pc - 1
    ELSE IF stack[i + 1].fn = "vga_print"
    THEN stack[i].pc - 2 + (IF stack[i + 1].pc > 2 THEN 1 ELSE 0)
    ELSE Len(PageFaultReport)

\* the last n records on the screen are the first n of the report
EndsWithReport(n) ==
    /\ Len(vga) >= n
    /\ SubSeq(vga, Len(vga) - n + 1, Len(vga)) = SubSeq(PageFaultReport, 1, n)

C12_PageFault ==
    /\ [](\A i \in 1..Len(stack) :
            stack[i].fn = PageFaultHandler =>
              /\ EndsWithReport(Emitted(i))
              /\ ~rflags_if
              /\ (halted => Top.fn = "hlt_loop"
                            /\ EndsWithReport(Len(PageFaultReport))))
    /\ [][OnStack(PageFaultHandler) =>
            /\ OnStack(PageFaultHandler)'
            /\ Interrupted(stack', PageFaultHandler)
                 = Interrupted(stack, PageFaultHandler)]_vars
    /\ (OnStack(PageFaultHandler)
          ~> (/\ halted /\ Top.fn = "hlt_loop"
              /\ EndsWithReport(Len(PageFaultReport))))

---------------------------------------------------------------------------
(* C13: on every fatal path (double fault, page fault, panic) the          *)
(* diagnostic has been written to the sink whenever the system has stopped *)
(* making progress, be it halted or waiting without end for a lock, also   *)
(* when the fault hit code that holds the lock of the sink.                *)
Diagnosed(fr) ==
    IF fr.fn = "page_fault_handler"
    THEN Records("EXCEPTION: PAGE FAULT") > 0
    ELSE IF fr.fn = "double_fault_handler"
    THEN Reported("EXCEPTION: DOUBLE FAULT\n")
    ELSE Reported(fr.arg[2])

C13_DiagnosticBeforeHalt ==
    \A i \in 1..Len(stack) :
        /\ stack[i].fn \in {"double_fault_handler", "page_fault_handler",
                            "panic"}
        /\ (halted \/ Blocked)
        => Diagnosed(stack[i])

---------------------------------------------------------------------------
(* C14: while PICS or KEYBOARD is held interrupts are disabled, so no      *)
(* handler ever waits for one of them; outside handlers PICS is held only  *)
(* by init(), which releases it before it enables interrupts, and KEYBOARD *)
(* is held only by the keyboard handler.                                   *)
HandlerLocks == {"PICS", "KEYBOARD"}

C14_HandlerLocks ==
    /\ \A l \in HandlerLocks :
          locks[l] # 0 =>
            /\ ~rflags_if
            /\ locks[l] <= Len(stack)
            /\ (~stack[locks[l]].gate =>
                  /\ l = "PICS"
                  /\ stack[locks[l]].fn = "init"
                  /\ Count("sti") = 0)
    /\ (locks["KEYBOARD"] # 0 =>
          stack[locks["KEYBOARD"]].fn = KeyboardHandler)
    /\ (Is("sti") => locks["PICS"] = 0)
    /\ ~(Blocked /\ Instr.l \in HandlerLocks)

C14_Witness ==
    /\ Top.fn = "init"
    /\ locks["PICS"] = Len(stack)
    /\ pic.initialized = 1
    /\ ~rflags_if

---------------------------------------------------------------------------
(* C15: the timer and the keyboard handler are non-reentrant and run to    *)
(* completion: at most one invocation of them is active in any state,      *)
(* interrupts stay disabled while it is, and every invocation either       *)
(* returns or the system ends in the halt loop.                            *)
ActiveHandlers ==
    {i \in 1..Len(stack) : stack[i].fn \in {TimerHandler, KeyboardHandler}}

C15_RunToCompletion ==
    /\ [](/\ Cardinality(ActiveHandlers) <= 1
          /\ (ActiveHandlers # {} => ~rflags_if))
    /\ (ActiveHandlers # {}
          ~> (ActiveHandlers = {} \/ (halted /\ Top.fn = "hlt_loop")))

---------------------------------------------------------------------------
---------------------------------------------------------------------------
(* C17: init_idt() called again leaves the dispatch state as the first     *)
(* call left it: the IDT register names the one constructed table, and a   *)
(* trap on any vector after it enters the handler of that vector in the    *)
(* table exactly once, on the stack the entry names.                       *)
C17_InitIdtIdempotent ==
    /\ [](Count("lidt") >= 1 => idtr = "IDT" /\ built["IDT"] = 1)
    /\ [][(Count("lidt") >= 1 /\ Len(stack') > Len(stack)
             /\ stack'[Len(stack')].gate) =>
            \E v \in Vectors :
               /\ IDT_value[v].handler # "missing"
               /\ Len(stack') = Len(stack) + 1
               /\ stack'[Len(stack')] =
                    Frame(IDT_value[v].handler, <<>>, TRUE, rflags_if,
                          IDT_value[v].ist > 0)
               /\ calls' = Entered(IDT_value[v].handler)]_vars

C17_Witness ==
    /\ Count("lidt") = 2
    /\ Top.fn = "breakpoint_handler"
    /\ calls["breakpoint_handler"] = 1
    /\ idtr = "IDT"

---------------------------------------------------------------------------
(* C18: the loaded exception table maps vector 3 to the breakpoint         *)
(* handler, 8 to the double-fault handler, 14 to the page-fault handler,   *)
(* 32 to the timer handler and 33 to the keyboard handler, and no other of *)
(* the 256 vectors to anything; vector 8 alone names an interrupt stack,   *)
(* slot DOUBLE_FAULT_IST_INDEX = 0, the slot the task state populates.     *)
VectorAssignment ==
    [v \in 0..255 |->
        CASE v = 3 -> "breakpoint_handler"
          [] v = 8 -> "double_fault_handler"
          [] v = 14 -> "page_fault_handler"
          [] v = 32 -> "timer_interrupt_handler"
          [] v = 33 -> "keyboard_interrupt_handler"
          [] OTHER -> "missing"]

C18_VectorAssignment ==
    idtr = "IDT" =>
      /\ DOMAIN Table(idtr) = 0..255
      /\ \A v \in 0..255 :
            /\ Table(idtr)[v].handler = VectorAssignment[v]
            /\ (Table(idtr)[v].ist # 0 <=> v = 8)
      /\ DOUBLE_FAULT_IST_INDEX = 0
      /\ Table(idtr)[8].ist = DOUBLE_FAULT_IST_INDEX + 1
      /\ \A i \in 0..6 :
            TSS_value.interrupt_stack_table[i] # 0
              <=> i = DOUBLE_FAULT_IST_INDEX

C18_Witness ==
    /\ idtr = "IDT"
    /\ Top.fn = "double_fault_handler" /\ Top.ist
    /\ tr = [table |-> "GDT", sel |-> GDT_value.tss_selector]

---------------------------------------------------------------------------
(* C19: in the constructed segment table slot 0 is the null descriptor,    *)
(* the code selector refers to slot 1 and the task-state selector to slot  *)
(* 2, whose descriptor takes slots 2 and 3; no selector the table returned *)
(* and no selector loaded into CS or the task register refers to slot 0,   *)
(* and the two selectors refer to disjoint slots.                          *)
SlotOf(sel) == sel \div 8

\* the slots the descriptor a selector refers to occupies
SlotsOf(sel) ==
    IF DescriptorAt(sel) = "tss_low"
    THEN {SlotOf(sel), SlotOf(sel) + 1} ELSE {SlotOf(sel)}

C19_SegmentTableLayout ==
    /\ GDT_value.table = <<"null", "kernel_code", "tss_low", "tss_high">>
    /\ SlotOf(GDT_value.code_selector) = 1
    /\ SlotOf(GDT_value.tss_selector) = 2
    /\ SlotsOf(GDT_value.code_selector) = {1}
    /\ SlotsOf(GDT_value.tss_selector) = {2, 3}
    /\ SlotsOf(GDT_value.code_selector) \cap SlotsOf(GDT_value.tss_selector)
         = {}
    /\ (cs.table = "GDT" =>
          /\ built["GDT"] = 1
          /\ cs.sel = GDT_value.code_selector
          /\ SlotOf(cs.sel) # 0)
    /\ (tr.table = "GDT" =>
          /\ built["GDT"] = 1
          /\ tr.sel = GDT_value.tss_selector
          /\ SlotOf(tr.sel) # 0
          /\ SlotsOf(cs.sel) \cap SlotsOf(tr.sel) = {})

C19_Witness ==
    /\ gdtr = "GDT"
    /\ cs = [table |-> "GDT", sel |-> 8]
    /\ tr = [table |-> "GDT", sel |-> 16]

---------------------------------------------------------------------------
(* C20: in the constructed task state, interrupt-stack-table slot 0 holds  *)
(* start + 20480 (4096 * 5), start being the lowest address of the         *)
(* reserved region: the top of the region, not its base; the six other     *)
(* slots are zero.                                                         *)
C20_InterruptStackTop ==
    /\ STACK_SIZE = 20480
    /\ DOMAIN TSS_value.interrupt_stack_table = 0..6
    /\ TSS_value.interrupt_stack_table[0] = StackStart + 20480
    /\ TSS_value.interrupt_stack_table[0] # StackStart
    /\ \A i \in 1..6 : TSS_value.interrupt_stack_table[i] = 0
    /\ (tr.table = "GDT" => built["TSS"] = 1)
    /\ \A i \in 1..Len(stack) :
          stack[i].ist =>
            /\ tr.table = "GDT"
            /\ TSS_value.interrupt_stack_table[
                 Table(idtr)[DoubleFaultVector].ist - 1]
                 = StackStart + STACK_SIZE

C20_Witness ==
    /\ built["TSS"] = 1
    /\ tr.table = "GDT"
    /\ Top.fn = "double_fault_handler"
    /\ Top.ist
    /\ TSS_value.interrupt_stack_table[0] = 1048576 + 20480

---------------------------------------------------------------------------
(* C21: the interrupt controller is constructed with primary offset 32 and *)
(* secondary offset 40, exactly 8 apart and both at least 32, so its 16    *)
(* lines occupy vectors 32..47, apart from the exception vectors 0..31 and *)
(* inside the 8-bit range; the timer and keyboard vectors of the exception *)
(* table are primary offset + 0 and + 1, the vectors the controller sends. *)
ControllerVectors == {v \in 0..511 : ChainedPics_handles_interrupt(v)}

C21_ControllerOffsets ==
    /\ PICS_value.primary = 32
    /\ PICS_value.secondary = 40
    /\ PICS_value.secondary = PICS_value.primary + 8
    /\ ControllerVectors = 32..47
    /\ Cardinality(ControllerVectors) = 16
    /\ ControllerVectors \cap (0..31) = {}
    /\ ControllerVectors \subseteq 0..255
    /\ Timer = PICS_value.primary + 0
    /\ Keyboard = PICS_value.primary + 1
    /\ (idtr = "IDT" =>
          /\ Table(idtr)[PICS_value.primary].handler = TimerHandler
          /\ Table(idtr)[PICS_value.primary + 1].handler = KeyboardHandler)
    /\ (pic.initialized = 0 => irqs = 0)

C21_Witness ==
    /\ pic.initialized = 1
    /\ irqs = 2
    /\ calls[TimerHandler] = 1
    /\ calls[KeyboardHandler] = 1
    /\ Top.fn = KeyboardHandler

---------------------------------------------------------------------------
(* C22: notify_end_of_interrupt(vector) for a vector in 32..47             *)
(* acknowledges the secondary controller iff vector >= 40 and always the   *)
(* primary, the secondary first; it is called at most once per delivery,   *)
(* only by the handler of that delivery and with that handler's vector.    *)
VectorOf(f) == CHOOSE v \in Vectors : IDT_value[v].handler = f

C22_EndOfInterrupt ==
    /\ [](/\ \A v \in 32..47 :
               notify_end_of_interrupt(v) =
                 IF v >= 40 THEN <<"PIC2", "PIC1">> ELSE <<"PIC1">>
          /\ (Is("eoi") =>
                /\ Top.gate
                /\ Top.fn \in {TimerHandler, KeyboardHandler}
                /\ Instr.v = VectorOf(Top.fn)
                /\ locks["PICS"] = Len(stack)
                /\ acks = <<>>)
          /\ (acks # <<>> => acks = <<"PIC1">> /\ irqs > 0))
    /\ [][acks' # acks =>
            \/ acks' = <<>> /\ irqs' = irqs + 1
            \/ /\ acks = <<>>
               /\ Top.fn \in {TimerHandler, KeyboardHandler}
               /\ acks' = notify_end_of_interrupt(VectorOf(Top.fn))
               /\ irqs' = irqs]_vars

C22_Witness ==
    /\ Top.fn = KeyboardHandler
    /\ irqs = 2
    /\ acks = <<"PIC1">>
    /\ calls[TimerHandler] = 1

---------------------------------------------------------------------------
(* The test harness *)

\* the binaries whose _start runs test_runner over a slice of tests
Harnessed == {"kernel_test", "lib_test", "basic_boot"}

Started(t) == calls[t] > 0

\* the test was run and its frame is gone
Returned(t) == calls[t] > 0 /\ ~OnStack(t)

\* what test_runner and Testable::run print when every test of the slice
\* returns
RECURSIVE RunnerLines(_)
RunnerLines(tests) ==
    IF tests = <<>> THEN <<>>
    ELSE << <<Head(tests), "...\t">>, <<"[ok]", "\n">> >>
         \o RunnerLines(Tail(tests))

RunnerOutput == << <<"Running {} tests", "\n">> >> \o RunnerLines(Tests(prog))

\* a record of the serial line that test_panic_handler wrote
IsFailureRecord(r) == Head(r) \in {"[failed!]\n", "Error: "}

IsRunnerRecord(r) == ~IsFailureRecord(r)

\* the records of the serial line that test_runner and Testable::run wrote
RunnerRecords == SelectSeq(serial, IsRunnerRecord)

\* the name of the k-th test is the record 2k of the output, its '[ok]' the
\* record 2k + 1
NamePrinted(k) == Len(RunnerRecords) >= 2 * k
OkPrinted(k) == Len(RunnerRecords) >= 2 * k + 1

---------------------------------------------------------------------------
(* C23: test_runner runs every test of the slice at most once and in slice  *)
(* order: a test is started only after its name was printed and after the  *)
(* test before it has returned, and its '[ok]' is printed only after it     *)
(* has returned.  Success (0x10) is written to port 0xf4 only when every    *)
(* test has been run once and has returned, only as the first value        *)
(* written, and never once a panic was raised.                             *)
C23_TestRunner ==
    /\ [](prog \in Harnessed =>
            /\ calls["test_runner"] <= 1
            /\ calls["Testable_run"] <= Len(Tests(prog))
            /\ IsPrefix(RunnerRecords, RunnerOutput)
            /\ \A k \in 1..Len(Tests(prog)) :
                  /\ calls[Tests(prog)[k]] <= 1
                  /\ (Started(Tests(prog)[k]) =>
                        /\ NamePrinted(k)
                        /\ calls["Testable_run"] >= k
                        /\ \A j \in 1..(k - 1) : Returned(Tests(prog)[j]))
                  /\ (OkPrinted(k) => Returned(Tests(prog)[k])))
    /\ [][(prog \in Harnessed /\ port_f4' # port_f4
             /\ port_f4'[Len(port_f4')] = Success)
          => /\ port_f4 = <<>>
             /\ calls["panic"] = 0
             /\ RunnerRecords = RunnerOutput
             /\ \A k \in 1..Len(Tests(prog)) : Returned(Tests(prog)[k])]_vars

C23_Witness ==
    /\ prog = "lib_test"
    /\ port_f4 = <<Success>>
    /\ serial = RunnerOutput
    /\ \A k \in 1..Len(Tests(prog)) :
          calls[Tests(prog)[k]] = 1 /\ Returned(Tests(prog)[k])

---------------------------------------------------------------------------
(* A test that panics *)

\* the k-th test of the slice raised a panic: the frame of the panic handler
\* is above the frame of the test
Panicked(k) ==
    \E i \in 1..Len(stack) :
       /\ k \in 1..Len(Tests(prog))
       /\ stack[i].fn = Tests(prog)[k]
       /\ \E j \in (i + 1)..Len(stack) : stack[j].fn = "panic"

\* what test_panic_handler prints for the panic of an assertion
FailureOutput ==
    << <<"[failed!]\n", "\n">>,
       <<"Error: ">> \o PanicInfo(<<"assertion failed">>) \o <<"\n", "\n">> >>

\* the records of the serial line that test_panic_handler wrote
FailureRecords == SelectSeq(serial, IsFailureRecord)

\* test_panic_handler has come to its halt loop
FailureHalted ==
    /\ halted
    /\ Top.fn = "hlt_loop"
    /\ stack[Len(stack) - 1].fn = "test_panic_handler"

---------------------------------------------------------------------------
---------------------------------------------------------------------------
(* C25: in the should_panic binary at most one value is ever written to     *)
(* port 0xf4 and one is written eventually.  It is Success exactly when    *)
(* should_fail() panicked (the panic handler, entered above should_fail,   *)
(* printed '[ok]' first); it is Failed exactly when should_fail() returned *)
(* and '[test did not panic]' was printed first.                           *)
C25_ShouldPanic ==
    /\ [](prog = "should_panic" =>
            /\ Len(port_f4) <= 1
            /\ calls["should_fail"] <= 1
            /\ (port_f4 = <<Success>> =>
                  /\ calls["panic"] = 1
                  /\ OnStack("should_fail")
                  /\ Top.fn \in {"panic", "exit_qemu"}
                  /\ serial[Len(serial)] = <<"[ok]", "\n">>)
            /\ (port_f4 = <<Failed>> =>
                  /\ calls["panic"] = 0
                  /\ Returned("should_fail")
                  /\ serial[Len(serial)] = <<"[test did not panic]", "\n">>)
            /\ (calls["panic"] > 0 => port_f4 # <<Failed>>)
            /\ (Returned("should_fail") => port_f4 # <<Success>>))
    /\ (prog = "should_panic" => <>(Len(port_f4) = 1))
    /\ ((prog = "should_panic" /\ calls["panic"] > 0)
          ~> (port_f4 = <<Success>>))
    /\ ((prog = "should_panic" /\ Returned("should_fail"))
          ~> (port_f4 = <<Failed>>))

C25_Witness ==
    /\ prog = "should_panic"
    /\ port_f4 = <<Success>>
    /\ calls["panic"] = 1
    /\ Top.fn = "panic" /\ Is("jmp")

---------------------------------------------------------------------------
(* The screen *)

\* row holds the characters of s in its columns 0..Len(s)-1, in order
RowHolds(row, s) ==
    \A i \in 1..Len(s) : WRITER.chars[row][i - 1] = SubSeq(s, i, i)

\* the println! of test_println_output has returned and the test is reading
\* the screen back
ReadingBack ==
    \E i \in 1..Len(stack) :
       /\ stack[i].fn = "test_println_output"
       /\ stack[i].pc >= 2
       /\ (stack[i].pc = 2 => (i = Len(stack) \/ stack[i + 1].gate))

---------------------------------------------------------------------------
(* C26: in the test binary of the library, where init() has enabled         *)
(* interrupts, row BUFFER_HEIGHT - 2 of the screen holds the string of     *)
(* test_println_output in columns 0..len-1 once its println! has returned, *)
(* whenever the timer or keyboard handler printed to the same writer.      *)
C26_PrintlnOutput == ReadingBack => RowHolds(BUFFER_HEIGHT - 2, TestString)

---------------------------------------------------------------------------
(* C27: whatever bytes and strings are written, in whatever column the      *)
(* Writer stands, a call leaves column_position in 0..BUFFER_WIDTH, every  *)
(* cell a character is written to is in row BUFFER_HEIGHT - 1 and in a     *)
(* column below BUFFER_WIDTH, and the buffer keeps its 25 x 80 cells.      *)
C27_WriterInBounds ==
    /\ WRITER.column_position \in 0..BUFFER_WIDTH
    /\ \A i \in 1..Len(written) :
          /\ written[i][1] = BUFFER_HEIGHT - 1
          /\ written[i][2] \in 0..(BUFFER_WIDTH - 1)
    /\ DOMAIN WRITER.chars = 0..(BUFFER_HEIGHT - 1)
    /\ \A row \in 0..(BUFFER_HEIGHT - 1) :
          DOMAIN WRITER.chars[row] = 0..(BUFFER_WIDTH - 1)

\* a line longer than the screen is wide was written from the last column
\* on: it was wrapped once and fills the last row
C27_Witness ==
    /\ Top.fn = Caller
    /\ Len(written) = BUFFER_WIDTH + 1
    /\ written[1] = <<BUFFER_HEIGHT - 1, BUFFER_WIDTH - 1, "w">>
    /\ written[2] = <<BUFFER_HEIGHT - 1, 0, "w">>
    /\ WRITER.column_position = BUFFER_WIDTH
    /\ RowHolds(BUFFER_HEIGHT - 1, Repeat("w", BUFFER_WIDTH))

---------------------------------------------------------------------------
(* C28: _start of the kernel prints 'Hello World !' before anything of      *)
(* init() is executed, prints 'It did not crash!' only after init() has    *)
(* completed, and under every interleaving of timer and keyboard           *)
(* interrupts (in every run without a processor fault) it eventually has   *)
(* printed 'It did not crash!' and is in the halt loop.                    *)
KernelBooted ==
    /\ Records("It did not crash!") = 1
    /\ Len(stack) >= 2
    /\ stack[1].fn = "_start"
    /\ stack[2].fn = "hlt_loop"

C28_KernelBoot ==
    /\ [](prog = "kernel" =>
            /\ (calls["init"] > 0 =>
                  vga # <<>> /\ vga[1] = <<"Hello World ", "!", "\n">>)
            /\ (Records("It did not crash!") > 0 => InitCompleted)
            /\ (calls["hlt_loop"] > 0 /\ faults = 0
                  => Records("It did not crash!") = 1))
    /\ (prog = "kernel" => <>(KernelBooted \/ faults > 0))

---------------------------------------------------------------------------
(* One invocation of the keyboard handler *)

\* the frame at depth i is an invocation of the keyboard handler
KeyboardFrame(i) == i \in 1..Len(stack) /\ stack[i].fn = KeyboardHandler

\* from instruction pc on the handler only releases its locks
OnlyUnlocksFrom(pc) ==
    \A j \in pc..Len(keyboard_interrupt_handler) :
       keyboard_interrupt_handler[j].op = "unlock"

\* the top frame executes an instruction of kind op in this step
Executes(op) == Is(op) /\ stack' # stack

---------------------------------------------------------------------------
(* C29: one invocation of the keyboard handler takes the decoder lock,      *)
(* then reads one byte from port 0x60, then feeds this byte to the         *)
(* decoder, then forwards at most one decoded key to the screen, then      *)
(* acknowledges the interrupt.  The port is read once per invocation, and  *)
(* after the acknowledge the handler only releases its locks.              *)
C29_KeyboardSteps ==
    /\ [](\A i \in 1..Len(stack) :
            KeyboardFrame(i) =>
              /\ (stack[i].pc \in 2..Len(keyboard_interrupt_handler)
                    => locks["KEYBOARD"] = i)
              /\ (stack[i].pc <= 2 =>
                    /\ stack[i].scancode = 0
                    /\ stack[i].key_event = NoKeyEvent)
              /\ (stack[i].pc <= 3 => stack[i].key = NoKey /\ acks = <<>>)
              /\ (acks # <<>> =>
                    /\ i = Len(stack)
                    /\ acks = <<"PIC1">>
                    /\ OnlyUnlocksFrom(stack[i].pc)))
    /\ [][/\ \A i \in 1..Len(stack) :
               (KeyboardFrame(i) /\ i <= Len(stack')
                  /\ stack'[i].fn = KeyboardHandler)
               => stack'[i].pc >= stack[i].pc
          /\ Executes("inb") =>
               /\ Top.fn = KeyboardHandler /\ Top.pc = 2
               /\ Instr.port = KeyboardPort
               /\ stack'[Len(stack)].pc = 3
          /\ Executes("add_byte") =>
               /\ Top.fn = KeyboardHandler /\ Top.pc = 3
               /\ KEYBOARD' = add_byte(KEYBOARD, Top.scancode).kb
               /\ vga' = vga /\ acks' = acks
          /\ (KEYBOARD' # KEYBOARD) =>
               /\ Top.fn = KeyboardHandler
               /\ Top.pc \in {3, 4}
          /\ (vga' # vga /\ \E i \in 1..Len(stack) : KeyboardFrame(i)) =>
               /\ KeyboardFrame(Len(stack) - 1)
               /\ stack[Len(stack) - 1].pc = 6
               /\ stack[Len(stack) - 1].key # NoKey
               /\ vga' = Append(vga, <<stack[Len(stack) - 1].key.val>>)
               /\ acks = <<>>
          /\ (acks' # acks /\ Top.fn = KeyboardHandler) =>
               /\ Top.pc > 3
               /\ acks' = <<"PIC1">>
               /\ OnlyUnlocksFrom(Top.pc + 1)
         ]_vars

C29_Witness ==
    /\ Top.fn = KeyboardHandler
    /\ AtEnd
    /\ Top.scancode = 30
    /\ Top.key = [tag |-> "Unicode", val |-> "a"]
    /\ vga # <<>> /\ vga[Len(vga)] = <<"a">>
    /\ acks = <<"PIC1">>
    /\ locks["KEYBOARD"] = 0 /\ locks["PICS"] = 0

---------------------------------------------------------------------------
(* C30: when the timer or the keyboard handler returns, no lock is held by  *)
(* its frame or by a call it made: WRITER, KEYBOARD and PICS, if held at   *)
(* all, are held by the interrupted code (SERIAL1 likewise).  While a      *)
(* handler is on the stack no step changes which locks the frames below    *)
(* it hold, so the interrupted code holds the same locks before and after. *)
HeldBelow(l, h) == locks[l] \in 1..(h - 1)

C30_LocksReleased ==
    /\ [](\A h \in 1..Len(stack) :
            (stack[h].fn \in {TimerHandler, KeyboardHandler}
               /\ stack[h].pc > Len(Body(prog, stack[h])))
            => /\ h = Len(stack)
               /\ \A l \in LockNames : locks[l] < h)
    /\ [][\A h \in 1..Len(stack) :
            stack[h].fn \in {TimerHandler, KeyboardHandler} =>
              \A l \in LockNames :
                 (HeldBelow(l, h) \/ locks'[l] \in 1..(h - 1))
                 => locks'[l] = locks[l]]_vars

\* the timer handler returns into a serial_print! that holds SERIAL1
C30_Witness ==
    /\ Returning(TimerHandler)
    /\ acks = <<"PIC1">>
    /\ locks["SERIAL1"] = Len(stack) - 1
    /\ locks["WRITER"] = 0 /\ locks["KEYBOARD"] = 0 /\ locks["PICS"] = 0


---------------------------------------------------------------------------
(* C32: new_line scrolls by exactly one row: afterwards every row r in      *)
(* 0..23 holds what row r + 1 held before (what row 0 held is gone), row   *)
(* 24 is 80 blank cells and column_position is 0.  write_byte calls        *)
(* new_line exactly when the byte is the newline, or when another byte     *)
(* arrives with column_position >= 80; that byte is then written at column *)
(* 0 of row 24.  In every other case nothing is scrolled.                  *)

\* the argument of the call of the Writer that the step has logged
Written_arg == vga'[Len(vga')][1]

\* the screen after the step is the screen before it, moved up by one row
ScrolledUp ==
    /\ DOMAIN WRITER'.chars = 0..(BUFFER_HEIGHT - 1)
    /\ \A row \in 0..(BUFFER_HEIGHT - 2) :
          WRITER'.chars[row] = WRITER.chars[row + 1]

\* the last row after the step is blank from column col on
BlankFrom(col) ==
    /\ DOMAIN WRITER'.chars[BUFFER_HEIGHT - 1] = 0..(BUFFER_WIDTH - 1)
    /\ \A c \in col..(BUFFER_WIDTH - 1) :
          WRITER'.chars[BUFFER_HEIGHT - 1][c] = Blank

\* what one call of new_line, and nothing else, does to the Writer
Scrolled ==
    /\ ScrolledUp
    /\ BlankFrom(0)
    /\ WRITER'.column_position = 0
    /\ written' = <<>>

\* the byte went to column 0 of the last row of the scrolled screen
ScrolledAndWritten(byte) ==
    /\ ScrolledUp
    /\ WRITER'.chars[BUFFER_HEIGHT - 1][0] = byte
    /\ BlankFrom(1)
    /\ WRITER'.column_position = 1
    /\ written' = << <<BUFFER_HEIGHT - 1, 0, byte>> >>

\* the byte went to the current column and no other cell changed
WrittenInPlace(byte) ==
    LET col == WRITER.column_position
    IN /\ WRITER'.chars =
             [WRITER.chars EXCEPT ![BUFFER_HEIGHT - 1][col] = byte]
       /\ WRITER'.column_position = col + 1
       /\ written' = << <<BUFFER_HEIGHT - 1, col, byte>> >>

C32_NewLineScrolls ==
    [][/\ NewLine => Scrolled
       /\ WriteByte =>
             IF Written_arg = "\n" THEN Scrolled
             ELSE IF WRITER.column_position >= BUFFER_WIDTH
             THEN ScrolledAndWritten(Written_arg)
             ELSE WrittenInPlace(Written_arg)]_vars

\* a byte arrived when the last row was full: the full row is now row 23
\* and the byte stands alone in row 24
C32_Witness ==
    /\ Top.fn = Caller
    /\ vga = << <<"a">> >>
    /\ written = << <<BUFFER_HEIGHT - 1, 0, "a">> >>
    /\ WRITER.column_position = 1
    /\ RowHolds(BUFFER_HEIGHT - 2, Repeat("x", BUFFER_WIDTH))
    /\ RowHolds(BUFFER_HEIGHT - 1, "a" \o Repeat(" ", BUFFER_WIDTH - 1))


---------------------------------------------------------------------------
(* C33: write_string writes the bytes of its input in order: a byte in      *)
(* 0x20..=0x7e is stored unchanged, a newline breaks the line and stores   *)
(* no cell, every other byte is stored as 0xfe.  So every cell written by  *)
(* write_string holds a byte in 0x20..=0x7e or 0xfe, and as many cells are *)
(* written as the input has bytes other than the newline.                  *)

\* the bytes of s that are not the newline, in order
NonNewlines(s) ==
    LET kept == {i \in 1..Len(s) : SubSeq(s, i, i) # "\n"}
        nth(k) == CHOOSE i \in kept :
                     Cardinality({j \in kept : j <= i}) = k
    IN [k \in 1..Cardinality(kept) |-> SubSeq(s, nth(k), nth(k))]

\* what the screen holds for a byte of the input that is not the newline
Stored(byte) == IF byte \in Printable THEN byte ELSE Unprintable

C33_WriteStringBytes ==
    [][WriteString =>
          LET bytes == NonNewlines(Written_arg)
          IN /\ Len(written') = Len(bytes)
             /\ \A k \in 1..Len(bytes) : written'[k][3] = Stored(bytes[k])
             /\ \A k \in 1..Len(written') :
                   written'[k][3] \in Printable \cup {Unprintable}]_vars

\* the string with a tab was written: its three bytes made three cells,
\* the one in the middle holds 0xfe
C33_Witness ==
    /\ Top.fn = Caller
    /\ vga # <<>>
    /\ vga[Len(vga)] = <<"a\tb">>
    /\ Len(written) = 3
    /\ written[1][3] = "a"
    /\ written[2][3] = Unprintable
    /\ written[3][3] = "b"
    /\ written[2][2] = written[1][2] + 1
    /\ WRITER.chars[written[2][1]][written[2][2]] = Unprintable


---------------------------------------------------------------------------
(* C31: a write to a sink is attempted once per _print and never retried.   *)
(* When the write reports an error, _print panics (on the serial port with *)
(* 'Printing to serial failed', on the screen through unwrap) with the     *)
(* lock of the sink still held, the panic handler is entered and _print is *)
(* never resumed.  write_str of the screen Writer reports no error,        *)
(* whatever the string and the state of the screen.                        *)

\* the top frame executes its write_fmt (the step is not an interrupt or a
\* fault arriving in front of it)
WriteAttempt ==
    /\ Is("write_fmt")
    /\ stack' # stack
    /\ irqs' = irqs
    /\ faults' = faults

WriteCompleted ==
    /\ stack' = Advance(stack)
    /\ calls' = calls
    /\ IF Instr.sink = "vga"
       THEN vga' = Append(vga, Top.arg) /\ serial' = serial
       ELSE serial' = Append(serial, Top.arg) /\ vga' = vga

\* the panic is raised on top of the frame of _print, which stays where it
\* was and keeps its lock; nothing is logged
WriteFailed ==
    /\ Instr.sink = "serial"
    /\ Len(stack') = Len(stack) + 1
    /\ SubSeq(stack', 1, Len(stack)) = stack
    /\ stack'[Len(stack')].fn = "panic"
    /\ stack'[Len(stack')].arg = PanicInfo(<<ExpectFailed>>)
    /\ calls'["panic"] = calls["panic"] + 1
    /\ locks' = locks
    /\ locks["SERIAL1"] = Len(stack)
    /\ serial' = serial
    /\ vga' = vga

\* frames of f that have not completed a write
Pending(f) ==
    Cardinality({i \in 1..Len(stack) : stack[i].fn = f /\ stack[i].pc <= 2})

\* every entry into _print has made one record, or none yet
OneWritePerPrint ==
    /\ Len(vga) = calls["vga_print"] - Pending("vga_print")
    /\ Len(serial) = calls["serial_print"] - Pending("serial_print")

\* a panic is never left: the frame it was raised on is not resumed
PanicStays ==
    \A i \in 2..Len(stack) :
       stack[i].fn = "panic" =>
          /\ Len(stack') >= i
          /\ stack'[i].fn = "panic"
          /\ stack'[i - 1] = stack[i - 1]

C31_WriteOnce ==
    [][/\ WriteAttempt => IF stack' = Advance(stack) THEN WriteCompleted
                          ELSE WriteFailed
       /\ OneWritePerPrint'
       /\ PanicStays
       /\ WRITER' # WRITER =>
             \A s \in Strings :
                /\ write_str(Tracked(WRITER), s).result = "Ok"
                /\ write_str(Tracked(WRITER'), s).result = "Ok"]_vars

\* a write to the serial port has failed: the panic sits on the frame of
\* _print, which holds SERIAL1, and the panic handler has been entered
C31_Witness ==
    \E i \in 1..(Len(stack) - 2) :
       /\ stack[i].fn = "serial_print"
       /\ stack[i].pc = 2
       /\ locks["SERIAL1"] = i
       /\ stack[i + 1].fn = "panic"
       /\ stack[i + 1].arg = PanicInfo(<<ExpectFailed>>)
       /\ calls["panic"] = 1
       /\ Len(serial) = calls["serial_print"] - Pending("serial_print")

====
